---- MODULE Spec2Model ----
(***************************************************************************)
(* Undo/redo change tracking for a shared segment sequence                 *)
(* (packages/framework/undo-redo/src/sequenceHandler.ts) on top of the     *)
(* sparse-matrix segment kinds (packages/runtime/sequence/src/             *)
(* sparsematrix.ts).  The merge-tree engine and the undo-redo stack        *)
(* manager are external to the modelled files; their primitives are        *)
(* modelled from the written specification and marked as such.             *)
(***************************************************************************)
EXTENDS Integers, Sequences, FiniteSets, TLC

\* ------------------------------------------------------------------ bounds
MaxSegs == 5       \* segments ever allocated (live and tombstones)
MaxGroups == 3     \* tracking groups ever allocated
MaxRevs == 2       \* Revertables ever created
MaxEdits == 2      \* edits applied by users (local and remote)
MaxListeners == 2  \* registrations of the delta handler on one sequence
MaxHandlerCalls == 1  \* revert()/disgard() calls in the two-sequence runs
MaxMatrixRows == 2    \* rows of the matrix
MaxMatrixEdits == 3   \* calls that change the matrix
MaxMatrixSegs == 10   \* segments ever allocated in the matrix
MaxMatrixGroups == 8  \* tracking groups ever allocated for the matrix
MaxMatrixRevs == 3    \* Revertables ever created for the matrix
MaxSegmentOps == 3    \* append, split and removeRange calls on standalone segments
MaxCalls == 2      \* revert() and disgard() calls made by the stack manager
MaxConnections == 3   \* connect() calls made on one KafkaOrderer
MaxSent == 6          \* messages handed to the producer

\* The shared sequences the Handler may be attached to.
Seqs == {"s1", "s2"}

\* MergeTreeDeltaType members used by the switch in revert(); GROUP stands for
\* any kind the undo layer does not understand.
INSERT == "INSERT"
REMOVE == "REMOVE"
ANNOTATE == "ANNOTATE"
GROUP == "GROUP"

\* range.propertyDeltas of an insert or remove range (undefined).
NoDelta == -1

\* Property values of the single modelled key; 0 is "no value" (undefined/null).
PropVals == {0, 1}

VARIABLES
    segs,       \* arena of segments, indexed by segment id
    order,      \* per sequence: segment ids in document order (tombstones kept)
    groups,     \* arena of tracking groups: the linked segment ids, in link order
    revs,       \* arena of Revertables: [sequence, tracking]
    sequences,  \* the Handler's map sequence -> open Revertable id (0: undefined)
    listeners,  \* per sequence: how often sequenceDeltaHandler is registered
    pushed,     \* Revertable ids handed to pushToCurrentOperation, in call order
    hist,       \* per Revertable: pre-edit view, whether only its edits acted
                \* since, and how many revert()/disgard() calls on it completed
    rv,         \* the revert()/disgard() call in progress, or its last outcome
    issued,     \* operations the last step issued to a sequence
    delta,      \* the delta event the last step made a sequence emit
    fed,        \* the Revertables whose add() the Handler called in the last step
    docs,       \* the sequences the application works on
    detached,   \* sequences whose last attach/detach call was detachSequence
    call,       \* the last call of the matrix interface and what it returned
    nedits,     \* number of user edits applied so far
    ncalls,     \* number of revert() and disgard() calls made so far
    details,    \* KafkaOrderer.details: what storage returned for the document
    existing,   \* KafkaOrderer.existing
    connections,\* the KafkaOrdererConnections created, in the order of the connect() calls
    producer    \* the messages handed to producer.send, in call order

vars == <<segs, order, groups, revs, sequences, listeners, pushed, hist, rv,
          issued, delta, fed, docs, detached, call, nedits, ncalls,
          details, existing, connections, producer>>

\* the state of the ordering service
ordererVars == <<details, existing, connections, producer>>

\* no orderer was created
NoOrderer ==
    /\ details = [existing |-> FALSE]
    /\ existing = FALSE
    /\ connections = <<>>
    /\ producer = <<>>

\* The program state as one record, so that a handler's calls compose.
World == [segs |-> segs, order |-> order, groups |-> groups, revs |-> revs,
          sequences |-> sequences, listeners |-> listeners, pushed |-> pushed,
          hist |-> hist, fed |-> <<>>]

\* no call of the matrix interface was made
NoCall == [op |-> "none"]

\* ------------------------------------------------------------ small helpers
Last(q) == q[Len(q)]

Front(q) == SubSeq(q, 1, Len(q) - 1)

Range(q) == {q[i] : i \in 1..Len(q)}

Has(q, x) == \E i \in 1..Len(q) : q[i] = x

RECURSIVE Without(_, _)
Without(q, x) ==
    IF q = <<>> THEN <<>>
    ELSE IF Head(q) = x THEN Without(Tail(q), x)
    ELSE <<Head(q)>> \o Without(Tail(q), x)

\* the sequence f[1], ..., f[n] of a function f on 1..n, built by appending
RECURSIVE Build(_, _)
Build(f, n) == IF n = 0 THEN <<>> ELSE Append(Build(f, n - 1), f[n])

AsSeq(f) == Build(f, Len(f))

InsertBefore(q, k, x) == SubSeq(q, 1, k - 1) \o <<x>> \o SubSeq(q, k, Len(q))

\* --------------------------------------------------------- segment model
\* new PaddingSegment(size)
PaddingSegment(size) ==
    [kind |-> "pad", items |-> <<>>, tags |-> <<>>, len |-> size,
     props |-> 0, removed |-> FALSE]

\* new RunSegment(items): one undefined tag per item
RunSegment(items) ==
    [kind |-> "run", items |-> items, tags |-> AsSeq([i \in 1..Len(items) |-> 0]),
     len |-> Len(items), props |-> 0, removed |-> FALSE]

\* toJSONObject of either kind: the wire shape (tags are not part of it)
toJSONObject(seg) ==
    IF seg.kind = "pad" THEN [pad |-> seg.len, props |-> seg.props]
    ELSE [items |-> seg.items, props |-> seg.props]

\* SparseMatrixFactory.segmentFromSpec: padding shape first, then run shape
segmentFromSpec(spec) ==
    IF "pad" \in DOMAIN spec
    THEN [PaddingSegment(spec.pad) EXCEPT !.props = spec.props]
    ELSE [RunSegment(spec.items) EXCEPT !.props = spec.props]

\* createSplitSegmentAt: <<what the original keeps, the new fragment>>
createSplitSegmentAt(seg, pos) ==
    IF seg.kind = "pad"
    THEN <<[seg EXCEPT !.len = pos], PaddingSegment(seg.len - pos)>>
    ELSE <<[seg EXCEPT !.items = SubSeq(seg.items, 1, pos),
                       !.tags = SubSeq(seg.tags, 1, pos),
                       !.len = pos],
           [RunSegment(SubSeq(seg.items, pos + 1, Len(seg.items)))
               EXCEPT !.tags = SubSeq(seg.tags, pos + 1, Len(seg.tags))]>>

\* Array.prototype.splice(start, deleteCount, ...items): start and
\* deleteCount are clamped to the array
splice(q, start, deleteCount, items) ==
    LET from == IF start > Len(q) THEN Len(q) ELSE start
        count == IF deleteCount > Len(q) - from THEN Len(q) - from ELSE deleteCount
    IN SubSeq(q, 1, from) \o items \o SubSeq(q, from + count + 1, Len(q))

\* SubSequence.append: the items of the other segment follow
appendItems(seg, other) ==
    [seg EXCEPT !.items = @ \o other.items, !.len = Len(seg.items) + Len(other.items)]

\* the tags.splice of RunSegment.append, after super.append has grown items
appendTags(seg, other) ==
    [seg EXCEPT !.tags = splice(@, Len(seg.items), 0, other.tags)]

\* an append that puts the tags of the other segment first
appendTagsFirst(seg, other) ==
    IF seg.kind = "pad"
    THEN IF other.kind # "pad" THEN [segment |-> seg, threw |-> TRUE]
         ELSE [segment |-> [seg EXCEPT !.len = @ + other.len], threw |-> FALSE]
    ELSE [segment |-> [appendItems(seg, other) EXCEPT !.tags = other.tags \o seg.tags],
          threw |-> FALSE]

\* PaddingSegment.append / RunSegment.append
append(seg, other) ==
    IF seg.kind = "pad"
    THEN IF other.kind # "pad" THEN [segment |-> seg, threw |-> TRUE]
         ELSE [segment |-> [seg EXCEPT !.len = @ + other.len], threw |-> FALSE]
    ELSE [segment |-> appendTags(appendItems(seg, other), other), threw |-> FALSE]

\* PaddingSegment.removeRange / RunSegment.removeRange (the flag returned
\* says that the whole segment was removed)
segmentRemoveRange(seg, start, end) ==
    IF seg.kind = "pad"
    THEN [segment |-> [seg EXCEPT !.len = @ - (end - start)],
          empty |-> seg.len - (end - start) = 0]
    ELSE [segment |-> [seg EXCEPT !.tags = splice(@, start, end - start, <<>>),
                                  !.items = SubSeq(@, 1, start) \o SubSeq(@, end + 1, Len(@)),
                                  !.len = Len(SubSeq(seg.items, 1, start)
                                              \o SubSeq(seg.items, end + 1, Len(seg.items)))],
          empty |-> Len(SubSeq(seg.items, 1, start)
                          \o SubSeq(seg.items, end + 1, Len(seg.items))) = 0]

\* ------------------------------------------------- tracking groups (engine)
\* TrackingGroup.link: a segment is linked at most once, at the end
link(W, g, sg) ==
    IF Has(W.groups[g], sg) THEN W
    ELSE [W EXCEPT !.groups[g] = Append(@, sg)]

\* TrackingGroup.unlink / TrackingGroupCollection.unlink
unlink(W, g, sg) == [W EXCEPT !.groups[g] = Without(@, sg)]

\* segment.trackingCollection.trackingGroups
trackingGroups(W, sg) == {g \in 1..Len(W.groups) : Has(W.groups[g], sg)}

\* trackingCollection.copyTo(newSeg): every group of sg also links newSeg
copyTo(W, sg, newSeg) ==
    [W EXCEPT !.groups = AsSeq([g \in 1..Len(W.groups) |->
        IF Has(W.groups[g], sg) THEN Append(W.groups[g], newSeg) ELSE W.groups[g]])]

\* ------------------------------------------------ sequence engine (merge tree)
\* length of a segment in the local view: a removed segment has none
VisLen(W, id) == IF W.segs[id].removed THEN 0 ELSE W.segs[id].len

RECURSIVE SumVis(_, _, _)
SumVis(W, q, k) == IF k = 0 THEN 0 ELSE SumVis(W, q, k - 1) + VisLen(W, q[k])

\* visible length in front of the k-th segment of sequence s
Before(W, s, k) == SumVis(W, W.order[s], k - 1)

\* getLength
getLength(W, s) == SumVis(W, W.order[s], Len(W.order[s]))

IndexOf(q, x) == CHOOSE i \in 1..Len(q) : q[i] = x

\* the sequence a segment belongs to
SeqOf(W, sg) == CHOOSE s \in Seqs : Has(W.order[s], sg)

\* getPosition(segment)
getPosition(W, s, sg) == Before(W, s, IndexOf(W.order[s], sg))

\* BaseSegment.splitAt inside the tree: the fragment follows the original,
\* inherits properties and removal state, and every group of the original
\* links the fragment too
splitSegment(W, s, k, off) ==
    LET id == W.order[s][k]
        pair == createSplitSegmentAt(W.segs[id], off)
        new == Len(W.segs) + 1
        frag == [pair[2] EXCEPT !.props = W.segs[id].props,
                                !.removed = W.segs[id].removed]
        W1 == [W EXCEPT !.segs = Append([@ EXCEPT ![id] = pair[1]], frag),
                        !.order[s] = InsertBefore(@, k + 1, new)]
    IN copyTo(W1, id, new)

\* make pos a segment boundary of the local view
ensureBoundary(W, s, pos) ==
    LET q == W.order[s]
        hit == {k \in 1..Len(q) :
                    /\ ~W.segs[q[k]].removed
                    /\ Before(W, s, k) < pos
                    /\ pos < Before(W, s, k) + W.segs[q[k]].len}
    IN IF hit = {} THEN W
       ELSE LET k == CHOOSE k \in hit : TRUE
            IN splitSegment(W, s, k, pos - Before(W, s, k))

\* live segments lying inside [start, end), in document order
RECURSIVE Covered(_, _, _, _, _)
Covered(W, s, start, end, k) ==
    IF k > Len(W.order[s]) THEN <<>>
    ELSE LET id == W.order[s][k]
             in == /\ ~W.segs[id].removed
                   /\ start <= Before(W, s, k)
                   /\ Before(W, s, k) + W.segs[id].len <= end
         IN (IF in THEN <<id>> ELSE <<>>) \o Covered(W, s, start, end, k + 1)

\* result of an engine primitive: the new state and the delta event's ranges
\* insertSegmentLocal(pos, segment): behind the visible content in front of pos
insertSegmentLocal(W, s, pos, seg) ==
    LET W1 == ensureBoundary(W, s, pos)
        q == W1.order[s]
        at == {k \in 1..Len(q) + 1 : Before(W1, s, k) = pos}
        k == CHOOSE k \in at : \A j \in at : k <= j
        new == Len(W1.segs) + 1
    IN [W |-> [W1 EXCEPT !.segs = Append(@, seg),
                         !.order[s] = InsertBefore(@, k, new)],
        ranges |-> <<[segment |-> new, propertyDeltas |-> NoDelta]>>]

\* insertAtReferencePosition(createPositionReference(sg, 0), segment):
\* anchored immediately at sg
insertAtReferencePosition(W, s, sg, seg) ==
    LET k == IndexOf(W.order[s], sg)
        new == Len(W.segs) + 1
    IN [W |-> [W EXCEPT !.segs = Append(@, seg),
                        !.order[s] = InsertBefore(@, k, new)],
        ranges |-> <<[segment |-> new, propertyDeltas |-> NoDelta]>>]

\* removeRange(start, end): every live segment of the range gets its marker
removeRange(W, s, start, end) ==
    LET W1 == ensureBoundary(ensureBoundary(W, s, start), s, end)
        ids == Covered(W1, s, start, end, 1)
    IN [W |-> [W1 EXCEPT !.segs = AsSeq([i \in 1..Len(W1.segs) |->
                    IF Has(ids, i) THEN [W1.segs[i] EXCEPT !.removed = TRUE]
                    ELSE W1.segs[i]])],
        ranges |-> AsSeq([i \in 1..Len(ids) |->
                    [segment |-> ids[i], propertyDeltas |-> NoDelta]])]

\* annotateRange(start, end, props): each range reports the overwritten value
annotateRange(W, s, start, end, val) ==
    LET W1 == ensureBoundary(ensureBoundary(W, s, start), s, end)
        ids == Covered(W1, s, start, end, 1)
    IN [W |-> [W1 EXCEPT !.segs = AsSeq([i \in 1..Len(W1.segs) |->
                    IF Has(ids, i) THEN [W1.segs[i] EXCEPT !.props = val]
                    ELSE W1.segs[i]])],
        ranges |-> AsSeq([i \in 1..Len(ids) |->
                    [segment |-> ids[i], propertyDeltas |-> W1.segs[ids[i]].props]])]

\* two views one after the other; padding that meets padding of the same
\* property value is one stretch of padding
JoinViews(a, b) ==
    IF a = <<>> THEN b
    ELSE IF b = <<>> THEN a
    ELSE IF Last(a)[1] = "pad" /\ Head(b)[1] = "pad" /\ Last(a)[2] = Head(b)[2]
    THEN Front(a) \o <<<<"pad", Last(a)[2], Last(a)[3] + Head(b)[3]>>>> \o Tail(b)
    ELSE a \o b

\* what a reader of sequence s sees, whatever the segmentation: per position
\* the item and the property value, a stretch of padding given once with its
\* length
RECURSIVE ViewOf(_, _, _)
ViewOf(W, q, k) ==
    IF k > Len(q) THEN <<>>
    ELSE LET sg == W.segs[q[k]]
             cells == IF sg.removed THEN <<>>
                      ELSE IF sg.kind = "pad" THEN <<<<"pad", sg.props, sg.len>>>>
                      ELSE AsSeq([i \in 1..sg.len |-> <<sg.items[i], sg.props, 1>>])
         IN JoinViews(cells, ViewOf(W, q, k + 1))

View(W, s) == ViewOf(W, W.order[s], 1)

\* ------------------------------------------------------ Revertable recorder
\* matchProperties(a, b): property-wise equality of two property deltas
matchProperties(a, b) == a = b

\* add() that compares operation kinds only and not the property deltas
RECURSIVE addRangesKindOnly(_, _, _, _, _)
addRangesKindOnly(W, r, event, i, current) ==
    IF i > Len(event.ranges) THEN W
    ELSE LET range == event.ranges[i]
             tr == W.revs[r].tracking
         IN IF current # 0 /\ tr[current].operation = event.deltaOperation
            THEN addRangesKindOnly(link(W, tr[current].trackingGroup, range.segment),
                                   r, event, i + 1, current)
            ELSE LET tg == Len(W.groups) + 1
                     W1 == link([W EXCEPT !.groups = Append(@, <<>>)], tg, range.segment)
                     W2 == [W1 EXCEPT !.revs[r].tracking = Append(@,
                              [trackingGroup |-> tg,
                               propertyDelta |-> range.propertyDeltas,
                               operation |-> event.deltaOperation])]
                 IN addRangesKindOnly(W2, r, event, i + 1, Len(W2.revs[r].tracking))

\* the body of the for loop of add(), from range i on; current is the index
\* of the entry the local variable `current` refers to (0: undefined)
RECURSIVE addRanges(_, _, _, _, _)
addRanges(W, r, event, i, current) ==
    IF i > Len(event.ranges) THEN W
    ELSE LET range == event.ranges[i]
             tr == W.revs[r].tracking
         IN IF /\ current # 0
               /\ tr[current].operation = event.deltaOperation
               /\ matchProperties(tr[current].propertyDelta, range.propertyDeltas)
            THEN addRanges(link(W, tr[current].trackingGroup, range.segment),
                           r, event, i + 1, current)
            ELSE LET tg == Len(W.groups) + 1
                     W1 == link([W EXCEPT !.groups = Append(@, <<>>)], tg, range.segment)
                     W2 == [W1 EXCEPT !.revs[r].tracking = Append(@,
                              [trackingGroup |-> tg,
                               propertyDelta |-> range.propertyDeltas,
                               operation |-> event.deltaOperation])]
                 IN addRanges(W2, r, event, i + 1, Len(W2.revs[r].tracking))

\* SharedSegmentSequenceRevertable.add
add(W, r, event) ==
    IF Len(event.ranges) > 0
    THEN addRanges(W, r, event, 1, Len(W.revs[r].tracking))
    ELSE W

\* ------------------------------------------------------------------ Handler
\* a listener that forgets the open Revertable of one sequence only
changePushedFirstOnly(W) == [W EXCEPT !.sequences = [s1 |-> 0, s2 |-> W.sequences.s2]]

\* the stack manager's "changePushed" listener: this.sequences.clear()
changePushed(W) == [W EXCEPT !.sequences = [s1 |-> 0, s2 |-> 0]]

\* stackManager.pushToCurrentOperation(revertable); the stack manager may
\* emit "changePushed" from inside the call (fire)
pushToCurrentOperation(W, r, fire) ==
    LET W1 == [W EXCEPT !.pushed = Append(@, r)]
    IN IF fire THEN changePushed(W1) ELSE W1

\* new SharedSegmentSequenceRevertable(target); pre is the view of the
\* sequence before the edit that is about to be recorded
newRevertable(W, target, pre) ==
    [W EXCEPT !.revs = Append(@, [sequence |-> target, tracking |-> <<>>]),
              !.hist = Append(@, [base |-> pre, pure |-> TRUE, done |-> 0])]

\* a handler that records every event, local or not
sequenceDeltaHandlerAnyOrigin(W, event, target, fire, pre) ==
    LET found == W.sequences[target]
        new == Len(W.revs) + 1
        revertable == IF found = 0 THEN new ELSE found
        W1 == IF found = 0
              THEN [pushToCurrentOperation(newRevertable(W, target, pre), new, fire)
                       EXCEPT !.sequences[target] = new]
              ELSE W
    IN [add(W1, revertable, event) EXCEPT !.fed = Append(@, revertable)]

\* a handler that opens a Revertable for every local event
sequenceDeltaHandlerNoReuse(W, event, target, fire, pre) ==
    IF event.isLocal
    THEN LET new == Len(W.revs) + 1
             W1 == [pushToCurrentOperation(newRevertable(W, target, pre), new, fire)
                       EXCEPT !.sequences[target] = new]
         IN [add(W1, new, event) EXCEPT !.fed = Append(@, new)]
    ELSE W

\* a handler that registers the new Revertable as open before it pushes it
sequenceDeltaHandlerSetFirst(W, event, target, fire, pre) ==
    IF event.isLocal
    THEN LET found == W.sequences[target]
             new == Len(W.revs) + 1
             revertable == IF found = 0 THEN new ELSE found
             W1 == IF found = 0
                   THEN pushToCurrentOperation(
                            [newRevertable(W, target, pre) EXCEPT !.sequences[target] = new],
                            new, fire)
                   ELSE W
         IN [add(W1, revertable, event) EXCEPT !.fed = Append(@, revertable)]
    ELSE W

\* SharedSegmentSequenceUndoRedoHandler.sequenceDeltaHandler
sequenceDeltaHandler(W, event, target, fire, pre) ==
    IF event.isLocal
    THEN LET found == W.sequences[target]
             new == Len(W.revs) + 1
             revertable == IF found = 0 THEN new ELSE found
             W1 == IF found = 0
                   THEN [pushToCurrentOperation(newRevertable(W, target, pre), new, fire)
                            EXCEPT !.sequences[target] = new]
                   ELSE W
         IN [add(W1, revertable, event) EXCEPT !.fed = Append(@, revertable)]
    ELSE W

\* the sequence emits "sequenceDelta": every registration of the handler runs
RECURSIVE emit(_, _, _, _, _, _)
emit(W, event, target, fire, pre, n) ==
    IF n = 0 THEN W
    ELSE emit(sequenceDeltaHandler(W, event, target, fire, pre),
              event, target, fire, pre, n - 1)

\* bookkeeping for the round-trip property: an edit of sequence s that is not
\* recorded into Revertable r (and is not r's own revert) ends r's claim to
\* be the only thing that happened since its pre-edit view
Touch(W, s, event, actor) ==
    LET recorded(r) == /\ event.isLocal
                       /\ W.listeners[s] > 0
                       /\ W.sequences[s] = r
                       /\ event.deltaOperation \in {INSERT, REMOVE, ANNOTATE}
    IN [W EXCEPT !.hist = AsSeq([r \in 1..Len(W.hist) |->
            IF W.revs[r].sequence = s /\ r # actor /\ ~recorded(r)
            THEN [W.hist[r] EXCEPT !.pure = FALSE]
            ELSE W.hist[r]])]

\* a "sequenceDelta" event of sequence s
Event(isLocal, kind, s, ranges) ==
    [isLocal |-> isLocal, deltaOperation |-> kind, seq |-> s, ranges |-> ranges]

NoEvent == Event(FALSE, "none", "none", <<>>)

\* an engine primitive's result delivered to the listeners of the sequence
Deliver(W0, res, event, fire, actor) ==
    Touch(emit(res.W, event, event.seq, fire, View(W0, event.seq),
               W0.listeners[event.seq]),
          event.seq, event, actor)

\* ------------------------------------------------------ Revertable executor
NoEntry == [trackingGroup |-> 0, propertyDelta |-> NoDelta, operation |-> "none"]

\* pc: position in revert(); tracked: the entry popped last; start: the entry
\* list at the call; clean: the round-trip precondition held at the call;
\* seen: segments processed since the last pop (revert) or released (disgard)
Idle == [pc |-> "idle", r |-> 0, tracked |-> NoEntry, outcome |-> "none",
         clean |-> FALSE, start |-> <<>>, seen |-> {}]

Op(name, s, sg, start, end, val) ==
    [op |-> name, seq |-> s, sg |-> sg, start |-> start, end |-> end, val |-> val]

\* this.tracking.shift() instead of pop(): the oldest entry first
popOldest(tr) == [tracked |-> Head(tr), rest |-> Tail(tr)]

\* this.tracking.pop(): the entry taken and the list left
pop(tr) == [tracked |-> Last(tr), rest |-> Front(tr)]

\* tracked.trackingGroup.segments[0]
firstSegment(W, tracked) == W.groups[tracked.trackingGroup][1]

\* a migration that links the new segment and forgets to unlink the old one
RECURSIVE migrateLinkOnly(_, _, _, _)
migrateLinkOnly(W, gs, sg, insertSegment) ==
    IF gs = {} THEN W
    ELSE LET tg == CHOOSE g \in gs : \A h \in gs : g <= h
         IN migrateLinkOnly(link(W, tg, insertSegment), gs \ {tg}, sg, insertSegment)

\* sg.trackingCollection.trackingGroups.forEach(tg => { tg.link(insertSegment);
\* tg.unlink(sg); })
RECURSIVE migrate(_, _, _, _)
migrate(W, gs, sg, insertSegment) ==
    IF gs = {} THEN W
    ELSE LET tg == CHOOSE g \in gs : \A h \in gs : g <= h
         IN migrate(unlink(link(W, tg, insertSegment), tg, sg),
                    gs \ {tg}, sg, insertSegment)

\* case INSERT without the test of the removal marker
revertInsertUnchecked(W, r, sg, fire) ==
    LET s == W.revs[r].sequence
        start == getPosition(W, s, sg)
        end == start + W.segs[sg].len
        res == removeRange(W, s, start, end)
        event == Event(TRUE, REMOVE, s, res.ranges)
    IN [W |-> Deliver(W, res, event, fire, r),
        issued |-> <<Op("removeRange", s, sg, start, end, 0)>>,
        event |-> event,
        threw |-> FALSE]

\* case INSERT of the switch
revertInsert(W, r, sg, fire) ==
    LET s == W.revs[r].sequence
    IN IF ~W.segs[sg].removed
       THEN LET start == getPosition(W, s, sg)
                end == start + W.segs[sg].len
                res == removeRange(W, s, start, end)
                event == Event(TRUE, REMOVE, s, res.ranges)
            IN [W |-> Deliver(W, res, event, fire, r),
                issued |-> <<Op("removeRange", s, sg, start, end, 0)>>,
                event |-> event,
                threw |-> FALSE]
       ELSE [W |-> W, issued |-> <<>>, event |-> NoEvent, threw |-> FALSE]

\* a case REMOVE that puts nothing back
revertRemoveNothing(W, r, sg, fire) ==
    [W |-> W, issued |-> <<>>, event |-> NoEvent, threw |-> FALSE]

\* case REMOVE of the switch
revertRemove(W, r, sg, fire) ==
    LET s == W.revs[r].sequence
        insertSegment == segmentFromSpec(toJSONObject(W.segs[sg]))
        res == insertAtReferencePosition(W, s, sg, insertSegment)
        new == res.ranges[1].segment
        event == Event(TRUE, INSERT, s, res.ranges)
        W1 == Deliver(W, res, event, fire, r)
    IN [W |-> migrate(W1, trackingGroups(W1, sg), sg, new),
        issued |-> <<Op("insertAtReferencePosition", s, sg, 0, 0, new)>>,
        event |-> event,
        threw |-> FALSE]

\* case ANNOTATE of the switch; it has no break and runs into the default
revertAnnotate(W, r, tracked, sg, fire) ==
    LET s == W.revs[r].sequence
    IN IF ~W.segs[sg].removed
       THEN LET start == getPosition(W, s, sg)
                end == start + W.segs[sg].len
                res == annotateRange(W, s, start, end, tracked.propertyDelta)
                event == Event(TRUE, ANNOTATE, s, res.ranges)
            IN [W |-> Deliver(W, res, event, fire, r),
                issued |-> <<Op("annotateRange", s, sg, start, end, tracked.propertyDelta)>>,
                event |-> event,
                threw |-> TRUE]
       ELSE [W |-> W, issued |-> <<>>, event |-> NoEvent, threw |-> TRUE]

\* one pass of the inner while loop of revert(): unlink segments[0], then switch
revertSegment(W, r, tracked, fire) ==
    LET sg == firstSegment(W, tracked)
        W1 == unlink(W, tracked.trackingGroup, sg)
    IN CASE tracked.operation = INSERT -> revertInsert(W1, r, sg, fire)
         [] tracked.operation = REMOVE -> revertRemove(W1, r, sg, fire)
         [] tracked.operation = ANNOTATE -> revertAnnotate(W1, r, tracked, sg, fire)
         [] OTHER -> [W |-> W1, issued |-> <<>>, event |-> NoEvent, threw |-> TRUE]

\* a drain that clears the tracking collection of each segment of the group:
\* every group loses the segment, not only g
drainAllGroups(W, g) ==
    LET Keep(x) == ~Has(W.groups[g], x)
    IN [W EXCEPT !.groups = AsSeq([h \in 1..Len(W.groups) |->
                                     SelectSeq(W.groups[h], Keep)])]

\* the inner while loop of disgard()
RECURSIVE drain(_, _)
drain(W, g) ==
    IF W.groups[g] = <<>> THEN W
    ELSE drain(unlink(W, g, W.groups[g][1]), g)

\* a disgard() that releases the last entry only
disgardLastOnly(W, r) ==
    IF Len(W.revs[r].tracking) > 0
    THEN LET p == pop(W.revs[r].tracking)
         IN drain([W EXCEPT !.revs[r].tracking = p.rest], p.tracked.trackingGroup)
    ELSE W

\* SharedSegmentSequenceRevertable.disgard
RECURSIVE disgard(_, _)
disgard(W, r) ==
    IF Len(W.revs[r].tracking) > 0
    THEN LET p == pop(W.revs[r].tracking)
         IN disgard(drain([W EXCEPT !.revs[r].tracking = p.rest],
                          p.tracked.trackingGroup), r)
    ELSE W

\* ------------------------------------------------------------------ actions
Within(W, bounds) ==
    /\ Len(W.segs) <= bounds[1]
    /\ Len(W.groups) <= bounds[2]
    /\ Len(W.revs) <= bounds[3]

InBounds(W) == Within(W, <<MaxSegs, MaxGroups, MaxRevs>>)

Assign(W) ==
    /\ segs' = W.segs
    /\ order' = W.order
    /\ groups' = W.groups
    /\ revs' = W.revs
    /\ sequences' = W.sequences
    /\ listeners' = W.listeners
    /\ pushed' = W.pushed
    /\ hist' = W.hist
    /\ fed' = W.fed

Items == {"x"}

\* the handler creates a Revertable for a delta of s only in this case; the
\* stack manager's answer to a push (fire) is a choice only then
Creates(s, isLocal) == isLocal /\ listeners[s] > 0 /\ sequences[s] = 0

\* an edit applied by a user or a remote collaborator and its delta event
Edit(res, event, fire) ==
    /\ rv.pc = "idle"
    /\ nedits < MaxEdits
    /\ LET W2 == Deliver(World, res, event, fire, 0)
       IN InBounds(W2) /\ Assign(W2)
    /\ delta' = event
    /\ nedits' = nedits + 1
    /\ rv' = Idle
    /\ issued' = <<>>
    /\ UNCHANGED ordererVars
    /\ UNCHANGED <<docs, call, detached, ncalls>>

\* a user (isLocal) or a remote collaborator inserts a one-item run at pos
InsertEdit(s, pos, item, isLocal, fire) ==
    LET res == insertSegmentLocal(World, s, pos, RunSegment(<<item>>))
    IN Edit(res, Event(isLocal, INSERT, s, res.ranges), fire)

\* a user or a remote collaborator removes [start, end)
RemoveEdit(s, start, end, isLocal, fire) ==
    LET res == removeRange(World, s, start, end)
    IN Edit(res, Event(isLocal, REMOVE, s, res.ranges), fire)

\* a user sets the property on [start, end)
AnnotateEdit(s, start, end, val, fire) ==
    LET res == annotateRange(World, s, start, end, val)
    IN Edit(res, Event(TRUE, ANNOTATE, s, res.ranges), fire)

\* the engine reports a local delta of a kind the undo layer does not know
OtherEdit(s, sg, fire) ==
    /\ Has(order[s], sg) /\ ~segs[sg].removed
    /\ LET res == [W |-> World,
                   ranges |-> <<[segment |-> sg, propertyDeltas |-> NoDelta]>>]
       IN Edit(res, Event(TRUE, GROUP, s, res.ranges), fire)

\* attachSequence: sequence.on("sequenceDelta", handler) adds a registration
AttachSequence(s) ==
    /\ rv.pc = "idle"
    /\ listeners[s] < MaxListeners
    /\ listeners' = [listeners EXCEPT ![s] = @ + 1]
    /\ rv' = Idle
    /\ issued' = <<>>
    /\ delta' = NoEvent
    /\ fed' = <<>>
    /\ detached' = detached \ {s}
    /\ UNCHANGED ordererVars
    /\ UNCHANGED <<segs, order, groups, revs, sequences, pushed, hist, nedits, ncalls, docs, call>>

\* detachSequence: removeListener drops one registration, if there is one
DetachSequence(s) ==
    /\ rv.pc = "idle"
    /\ listeners' = [listeners EXCEPT ![s] = IF @ > 0 THEN @ - 1 ELSE 0]
    /\ rv' = Idle
    /\ issued' = <<>>
    /\ delta' = NoEvent
    /\ fed' = <<>>
    /\ detached' = detached \cup {s}
    /\ UNCHANGED ordererVars
    /\ UNCHANGED <<segs, order, groups, revs, sequences, pushed, hist, nedits, ncalls, docs, call>>

\* the stack manager emits "changePushed" on its own
ChangePushed ==
    /\ rv.pc = "idle"
    /\ Assign(changePushed(World))
    /\ rv' = Idle
    /\ issued' = <<>>
    /\ delta' = NoEvent
    /\ UNCHANGED ordererVars
    /\ UNCHANGED <<docs, call, detached, nedits, ncalls>>

\* a caller invokes revert() on Revertable r
RevertCall(r) ==
    /\ rv.pc = "idle"
    /\ ncalls < MaxCalls
    /\ ncalls' = ncalls + 1
    /\ rv' = [Idle EXCEPT !.pc = "outer", !.r = r, !.clean = hist[r].pure,
                          !.start = revs[r].tracking]
    /\ issued' = <<>>
    /\ delta' = NoEvent
    /\ fed' = <<>>
    /\ UNCHANGED ordererVars
    /\ UNCHANGED <<segs, order, groups, revs, sequences, listeners, pushed, hist, nedits, docs, call, detached>>

\* outer loop, list not empty: pop the tail entry and evaluate the inner
\* loop's condition
RevertPop ==
    /\ rv.pc = "outer"
    /\ Len(revs[rv.r].tracking) > 0
    /\ LET p == pop(revs[rv.r].tracking)
       IN /\ revs' = [revs EXCEPT ![rv.r].tracking = p.rest]
          /\ rv' = [rv EXCEPT !.tracked = p.tracked,
                              !.seen = {},
                              !.pc = IF Len(groups[p.tracked.trackingGroup]) > 0
                                     THEN "inner" ELSE "outer"]
    /\ issued' = <<>>
    /\ delta' = NoEvent
    /\ fed' = <<>>
    /\ UNCHANGED ordererVars
    /\ UNCHANGED <<segs, order, groups, sequences, listeners, pushed, hist, nedits, ncalls, docs, call, detached>>

\* inner loop, group not empty: invert one segment; the loop condition is
\* evaluated again right after
RevertSegmentStep(res, bounds) ==
    /\ Within(res.W, bounds)
    /\ Assign(IF res.threw
              THEN [res.W EXCEPT !.hist[rv.r].pure = FALSE]
              ELSE res.W)
    /\ issued' = res.issued
    /\ delta' = res.event
    /\ rv' = IF res.threw
             THEN [rv EXCEPT !.pc = "idle", !.outcome = "threw",
                             !.seen = @ \cup {firstSegment(World, rv.tracked)}]
             ELSE [rv EXCEPT !.seen = @ \cup {firstSegment(World, rv.tracked)},
                             !.pc =
                     IF Len(res.W.groups[rv.tracked.trackingGroup]) > 0
                     THEN "inner" ELSE "outer"]
    /\ UNCHANGED ordererVars
    /\ UNCHANGED <<docs, call, detached, nedits, ncalls>>

RevertSegmentIn(fire, bounds) ==
    /\ rv.pc = "inner"
    /\ Len(groups[rv.tracked.trackingGroup]) > 0
    /\ RevertSegmentStep(revertSegment(World, rv.r, rv.tracked, fire), bounds)

RevertSegment(fire) == RevertSegmentIn(fire, <<MaxSegs, MaxGroups, MaxRevs>>)

\* outer loop, list empty: revert() returns
RevertReturn ==
    /\ rv.pc = "outer"
    /\ Len(revs[rv.r].tracking) = 0
    /\ rv' = [rv EXCEPT !.pc = "idle", !.outcome = "returned"]
    /\ hist' = [hist EXCEPT ![rv.r].pure = FALSE, ![rv.r].done = @ + 1]
    /\ issued' = <<>>
    /\ delta' = NoEvent
    /\ fed' = <<>>
    /\ UNCHANGED ordererVars
    /\ UNCHANGED <<segs, order, groups, revs, sequences, listeners, pushed, nedits, ncalls, docs, call, detached>>

\* a caller invokes disgard() on Revertable r
Disgard(r) ==
    /\ rv.pc = "idle"
    /\ ncalls < MaxCalls
    /\ ncalls' = ncalls + 1
    /\ Assign([disgard(World, r) EXCEPT !.hist[r].pure = FALSE,
                                        !.hist[r].done = @ + 1])
    /\ rv' = [Idle EXCEPT !.r = r, !.outcome = "discarded",
                          !.start = revs[r].tracking,
                          !.seen = UNION {Range(groups[revs[r].tracking[i].trackingGroup]) :
                                            i \in 1..Len(revs[r].tracking)}]
    /\ issued' = <<>>
    /\ delta' = NoEvent
    /\ UNCHANGED ordererVars
    /\ UNCHANGED <<docs, call, detached, nedits>>

\* ------------------------------------------------------------ specification
Init ==
    /\ segs = <<RunSegment(<<"a", "b">>), PaddingSegment(2)>>
    /\ order = [s1 |-> <<1>>, s2 |-> <<2>>]
    /\ groups = <<>>
    /\ revs = <<>>
    /\ sequences = [s1 |-> 0, s2 |-> 0]
    /\ listeners = [s1 |-> 0, s2 |-> 0]
    /\ pushed = <<>>
    /\ hist = <<>>
    /\ rv = Idle
    /\ issued = <<>>
    /\ delta = NoEvent
    /\ fed = <<>>
    /\ docs = {"s1"}
    /\ detached = {}
    /\ call = NoCall
    /\ nedits = 0
    /\ ncalls = 0
    /\ NoOrderer

Next ==
    \/ \E s \in docs, pos \in 0..MaxSegs, item \in Items, isLocal \in BOOLEAN, fire \in BOOLEAN :
          /\ pos <= getLength(World, s)
          /\ fire => Creates(s, isLocal)
          /\ InsertEdit(s, pos, item, isLocal, fire)
    \/ \E s \in docs, start \in 0..MaxSegs, end \in 1..MaxSegs + 1,
          isLocal \in BOOLEAN, fire \in BOOLEAN :
          /\ start < end /\ end <= getLength(World, s)
          /\ fire => Creates(s, isLocal)
          /\ RemoveEdit(s, start, end, isLocal, fire)
    \/ \E s \in docs, start \in 0..MaxSegs, end \in 1..MaxSegs + 1, val \in PropVals \ {0},
          fire \in BOOLEAN :
          /\ start < end /\ end <= getLength(World, s)
          /\ fire => Creates(s, TRUE)
          /\ AnnotateEdit(s, start, end, val, fire)
    \/ \E s \in docs, sg \in 1..MaxSegs, fire \in BOOLEAN :
          /\ sg <= Len(segs)
          /\ fire => Creates(s, TRUE)
          /\ OtherEdit(s, sg, fire)
    \/ \E s \in docs : AttachSequence(s)
    \/ \E s \in docs : DetachSequence(s)
    \/ ChangePushed
    \/ \E r \in 1..MaxRevs : r <= Len(revs) /\ RevertCall(r)
    \/ RevertPop
    \/ \E fire \in BOOLEAN :
          /\ rv.pc = "inner"
          /\ fire => Creates(revs[rv.r].sequence, TRUE)
          /\ RevertSegment(fire)
    \/ RevertReturn
    \/ \E r \in 1..MaxRevs : r <= Len(revs) /\ Disgard(r)

Spec == Init /\ [][Next]_vars

\* ------------------------------------- specification: one Handler, two sequences
\* The application works on both sequences and may register the Handler once
\* on each of them; every edit is a local one, and a caller makes at most
\* MaxHandlerCalls revert()/disgard() calls.
InitHandler ==
    /\ segs = <<RunSegment(<<"a", "b">>), PaddingSegment(2)>>
    /\ order = [s1 |-> <<1>>, s2 |-> <<2>>]
    /\ groups = <<>>
    /\ revs = <<>>
    /\ sequences = [s1 |-> 0, s2 |-> 0]
    /\ listeners = [s1 |-> 0, s2 |-> 0]
    /\ pushed = <<>>
    /\ hist = <<>>
    /\ rv = Idle
    /\ issued = <<>>
    /\ delta = NoEvent
    /\ fed = <<>>
    /\ docs = Seqs
    /\ detached = {}
    /\ call = NoCall
    /\ nedits = 0
    /\ ncalls = 0
    /\ NoOrderer

NextHandler ==
    \/ \E s \in docs, pos \in 0..MaxSegs, item \in Items, fire \in BOOLEAN :
          /\ pos <= getLength(World, s)
          /\ fire => Creates(s, TRUE)
          /\ InsertEdit(s, pos, item, TRUE, fire)
    \/ \E s \in docs, start \in 0..MaxSegs, end \in 1..MaxSegs + 1, fire \in BOOLEAN :
          /\ start < end /\ end <= getLength(World, s)
          /\ fire => Creates(s, TRUE)
          /\ RemoveEdit(s, start, end, TRUE, fire)
    \/ \E s \in docs, start \in 0..MaxSegs, end \in 1..MaxSegs + 1, val \in PropVals \ {0},
          fire \in BOOLEAN :
          /\ start < end /\ end <= getLength(World, s)
          /\ fire => Creates(s, TRUE)
          /\ AnnotateEdit(s, start, end, val, fire)
    \/ \E s \in docs : listeners[s] = 0 /\ AttachSequence(s)
    \/ \E s \in docs : DetachSequence(s)
    \/ ChangePushed
    \/ \E r \in 1..MaxRevs : r <= Len(revs) /\ ncalls < MaxHandlerCalls /\ RevertCall(r)
    \/ RevertPop
    \/ \E fire \in BOOLEAN :
          /\ rv.pc = "inner"
          /\ fire => Creates(revs[rv.r].sequence, TRUE)
          /\ RevertSegment(fire)
    \/ RevertReturn
    \/ \E r \in 1..MaxRevs : r <= Len(revs) /\ ncalls < MaxHandlerCalls /\ Disgard(r)

SpecHandler == InitHandler /\ [][NextHandler]_vars

\* ------------------- specification: a stack manager that notifies on every push
\* Both sequences are attached and s2 has an open Revertable that recorded one
\* local insert. The stack manager emits "changePushed" from inside every
\* pushToCurrentOperation call and at no other time.
Attached ==
    [segs |-> <<RunSegment(<<"a", "b">>), PaddingSegment(2)>>,
     order |-> [s1 |-> <<1>>, s2 |-> <<2>>],
     groups |-> <<>>,
     revs |-> <<>>,
     sequences |-> [s1 |-> 0, s2 |-> 0],
     listeners |-> [s1 |-> 1, s2 |-> 1],
     pushed |-> <<>>,
     hist |-> <<>>,
     fed |-> <<>>]

Opened ==
    LET res == insertSegmentLocal(Attached, "s2", 0, RunSegment(<<"x">>))
    IN Deliver(Attached, res, Event(TRUE, INSERT, "s2", res.ranges), FALSE, 0)

InitWindow ==
    /\ segs = Opened.segs
    /\ order = Opened.order
    /\ groups = Opened.groups
    /\ revs = Opened.revs
    /\ sequences = Opened.sequences
    /\ listeners = Opened.listeners
    /\ pushed = Opened.pushed
    /\ hist = Opened.hist
    /\ rv = Idle
    /\ issued = <<>>
    /\ delta = NoEvent
    /\ fed = <<>>
    /\ docs = Seqs
    /\ detached = {}
    /\ call = NoCall
    /\ nedits = 0
    /\ ncalls = 0
    /\ NoOrderer

NextWindow ==
    \/ \E s \in docs, pos \in 0..MaxSegs, item \in Items :
          /\ pos <= getLength(World, s)
          /\ InsertEdit(s, pos, item, TRUE, Creates(s, TRUE))
    \/ \E s \in docs, start \in 0..MaxSegs, end \in 1..MaxSegs + 1 :
          /\ start < end /\ end <= getLength(World, s)
          /\ RemoveEdit(s, start, end, TRUE, Creates(s, TRUE))
    \/ \E s \in docs, start \in 0..MaxSegs, end \in 1..MaxSegs + 1, val \in PropVals \ {0} :
          /\ start < end /\ end <= getLength(World, s)
          /\ AnnotateEdit(s, start, end, val, Creates(s, TRUE))

SpecWindow == InitWindow /\ [][NextWindow]_vars

\* ------------------------------------------------------- grid addressing
\* The matrix computes positions with the number type, an IEEE-754 double:
\* integers below 2^53 are exact, and a result in [2^53, 2^54) is rounded to
\* the nearest even integer, a tie going to the multiple of four. Positions
\* exceed the checker's integers, so a number is written here as its Limbs
\* digits in base Base, least significant digit first.
Base == 2^9

Limbs == 6

RECURSIVE Digits(_, _)
Digits(n, k) == IF k = 0 THEN <<>> ELSE <<n % Base>> \o Digits(n \div Base, k - 1)

\* the number n, for 0 <= n < 2^31
Num(n) == Digits(n, Limbs)

\* a + b + carry
RECURSIVE PlusCarry(_, _, _)
PlusCarry(a, b, carry) ==
    IF a = <<>> THEN <<>>
    ELSE LET t == Head(a) + Head(b) + carry
         IN <<t % Base>> \o PlusCarry(Tail(a), Tail(b), t \div Base)

Plus(a, b) == PlusCarry(a, b, 0)

\* a * m + carry, for 0 <= m < 2^22
RECURSIVE TimesCarry(_, _, _)
TimesCarry(a, m, carry) ==
    IF a = <<>> THEN <<>>
    ELSE LET t == Head(a) * m + carry
         IN <<t % Base>> \o TimesCarry(Tail(a), m, t \div Base)

Times(a, m) == TimesCarry(a, m, 0)

\* a - b - borrow, for a >= b
RECURSIVE MinusBorrow(_, _, _)
MinusBorrow(a, b, borrow) ==
    IF a = <<>> THEN <<>>
    ELSE LET t == Head(a) - Head(b) - borrow
         IN IF t < 0
            THEN <<t + Base>> \o MinusBorrow(Tail(a), Tail(b), 1)
            ELSE <<t>> \o MinusBorrow(Tail(a), Tail(b), 0)

\* a < b
RECURSIVE Less(_, _)
Less(a, b) ==
    IF a = <<>> THEN FALSE
    ELSE IF Last(a) # Last(b) THEN Last(a) < Last(b)
    ELSE Less(Front(a), Front(b))

\* floor(a / m) and the remainder, for 0 < m < 2^22: long division from the
\* most significant digit; acc is [quot, rem]
RECURSIVE DivMod(_, _, _)
DivMod(a, m, acc) ==
    IF a = <<>> THEN acc
    ELSE LET t == acc.rem * Base + Last(a)
         IN DivMod(Front(a), m, [quot |-> <<t \div m>> \o acc.quot, rem |-> t % m])

\* the double nearest to the integer a, for a < 2^54 (round half to even)
Round(a) ==
    IF a[Limbs] < Base \div 2 THEN a
    ELSE IF a[1] % 2 = 0 THEN a
    ELSE IF a[1] % 4 = 1 THEN MinusBorrow(a, Num(1), 0)
    ELSE Plus(a, Num(1))

\* a signed number: the double a - b
Signed(neg, mag) == [neg |-> neg, mag |-> mag]

Minus(a, b) ==
    IF Less(a, b) THEN Signed(TRUE, Round(MinusBorrow(b, a, 0)))
    ELSE Signed(FALSE, Round(MinusBorrow(a, b, 0)))

maxCol == 2097152

maxCols == maxCol + 1

\* 0xFFFFFFFF
maxRow == Plus(Times(Num(65535), 65536), Num(65535))

\* rowColToPosition: row * maxCols + col, each operation rounded
rowColToPosition(row, col) == Round(Plus(Round(Times(row, maxCols)), col))

\* positionToRowCol: row = Math.floor(position / maxCols) and
\* col = position - row * maxCols. The quotient of a position below
\* 2^32 * maxCols lies below 2^32, where doubles are 2^-21 apart at most; its
\* fraction is a multiple of 1/maxCols, so the quotient stays 1/maxCols or more
\* under the next integer, which is more than half that spacing: the rounded
\* quotient has the floor of the exact one.
positionToRowCol(position) ==
    LET row == DivMod(position, maxCols, [quot |-> <<>>, rem |-> 0]).quot
    IN [row |-> row, col |-> Minus(position, Round(Times(row, maxCols)))]

\* the row hi * 2^16 + lo
Row(hi, lo) == Plus(Times(Num(hi), 65536), Num(lo))

\* rows below maxRow: the first ones, those around 2^53 / maxCols, the last ones
GridRows == {Num(0), Num(1), Num(2), Row(65535, 63487), Row(65535, 63488),
             Row(65535, 63489), Row(65535, 65533), Row(65535, 65534)}

\* columns below maxCol: the first and the last ones
GridCols == {0, 1, 2, 3, 4, maxCol - 2, maxCol - 1}

\* everything but the call record
matrixVars == <<segs, order, groups, revs, sequences, listeners, pushed, hist, rv,
                issued, delta, fed, docs, detached, nedits, ncalls>>

\* a caller computes the position of the address it holds
RowColToPosition ==
    /\ call.op = "address"
    /\ call' = [call EXCEPT !.op = "position",
                            !.position = rowColToPosition(call.row, Num(call.col))]
    /\ UNCHANGED ordererVars
    /\ UNCHANGED matrixVars

\* a caller computes the address of the position it holds
PositionToRowCol ==
    /\ call.op = "position"
    /\ call' = [call EXCEPT !.op = "rowcol", !.back = positionToRowCol(call.position)]
    /\ UNCHANGED ordererVars
    /\ UNCHANGED matrixVars

\* ---------------------------------------- specification: grid addressing
InitGrid ==
    /\ segs = <<>>
    /\ order = [s1 |-> <<>>, s2 |-> <<>>]
    /\ groups = <<>>
    /\ revs = <<>>
    /\ sequences = [s1 |-> 0, s2 |-> 0]
    /\ listeners = [s1 |-> 0, s2 |-> 0]
    /\ pushed = <<>>
    /\ hist = <<>>
    /\ rv = Idle
    /\ issued = <<>>
    /\ delta = NoEvent
    /\ fed = <<>>
    /\ docs = {}
    /\ detached = {}
    /\ call \in {[op |-> "address", row |-> row, col |-> col, position |-> <<>>,
                   back |-> [row |-> <<>>, col |-> Signed(FALSE, <<>>)]] :
                     row \in {r \in GridRows : Less(r, maxRow)},
                     col \in {c \in GridCols : c < maxCol}}
    /\ nedits = 0
    /\ ncalls = 0
    /\ NoOrderer

NextGrid ==
    \/ RowColToPosition
    \/ PositionToRowCol

SpecGrid == InitGrid /\ [][NextGrid]_vars

\* ----------------------------------------------------------- sparse matrix
\* what a read of a cell without an item returns
undefined == "undefined"

\* the tag of an item that was given none (RunSegment fills tags with undefined)
NoTag == 0

\* the integer a number stands for, for numbers below 2^31
RECURSIVE Value(_)
Value(a) == IF a = <<>> THEN 0 ELSE Head(a) + Base * Value(Tail(a))

\* rowColToPosition for the rows the matrix holds
Pos(row, col) == Value(rowColToPosition(Num(row), Num(col)))

\* getContainingSegment(pos): the live segment that holds pos and the offset
\* in it; no segment (0) at or past the end of the sequence
getContainingSegment(W, s, pos) ==
    LET q == W.order[s]
        hit == {k \in 1..Len(q) :
                    /\ ~W.segs[q[k]].removed
                    /\ Before(W, s, k) <= pos
                    /\ pos < Before(W, s, k) + W.segs[q[k]].len}
    IN IF hit = {} THEN [segment |-> 0, offset |-> 0]
       ELSE LET k == CHOOSE k \in hit : TRUE
            IN [segment |-> q[k], offset |-> pos - Before(W, s, k)]

\* the local delta event of kind made from the result res of an engine
\* primitive, delivered to the listeners of sequence s
emitLocal(W, s, kind, res) ==
    [W |-> Deliver(W, res, Event(TRUE, kind, s, res.ranges), FALSE, 0),
     event |-> Event(TRUE, kind, s, res.ranges),
     threw |-> FALSE]

\* client.insertSegmentLocal and the delta event it makes the sequence emit;
\* nothing is inserted at a position behind the end
clientInsertSegmentLocal(W, s, pos, seg) ==
    IF pos > getLength(W, s) \/ seg.len <= 0
    THEN [W |-> W, event |-> NoEvent, threw |-> FALSE]
    ELSE emitLocal(W, s, INSERT, insertSegmentLocal(W, s, pos, seg))

\* client.removeRangeLocal and the delta event it makes the sequence emit
clientRemoveRangeLocal(W, s, start, end) ==
    emitLocal(W, s, REMOVE, removeRange(W, s, start, end))

\* replaceRange(start, end, segment): the segment is inserted behind the
\* range, then the range is removed; nothing happens when the insert fails
removeReplaced(ins, s, start, end) ==
    IF ins.event = NoEvent THEN ins
    ELSE IF start < end THEN clientRemoveRangeLocal(ins.W, s, start, end)
    ELSE ins

replaceRange(W, s, start, end, seg) ==
    removeReplaced(clientInsertSegmentLocal(W, s, end, seg), s, start, end)

\* SparseMatrix.numRows
numRows(W, s) == Value(positionToRowCol(Num(getLength(W, s))).row)

\* SparseMatrix.setItems without properties
setItems(W, s, row, col, values) ==
    LET start == Pos(row, col)
        end == start + Len(values)
    IN replaceRange(W, s, start, end, RunSegment(values))

\* a getItem that knows run segments only
getItemRunOnly(W, s, row, col) ==
    LET c == getContainingSegment(W, s, Pos(row, col))
    IN IF c.segment = 0 THEN [threw |-> TRUE, value |-> undefined]
       ELSE IF W.segs[c.segment].kind = "run"
       THEN [threw |-> FALSE, value |-> W.segs[c.segment].items[c.offset + 1]]
       ELSE [threw |-> TRUE, value |-> undefined]

\* SparseMatrix.getItem: the value returned, or an error raised
getItem(W, s, row, col) ==
    LET c == getContainingSegment(W, s, Pos(row, col))
    IN IF c.segment = 0 THEN [threw |-> TRUE, value |-> undefined]
       ELSE IF W.segs[c.segment].kind = "run"
       THEN [threw |-> FALSE, value |-> W.segs[c.segment].items[c.offset + 1]]
       ELSE IF W.segs[c.segment].kind = "pad"
       THEN [threw |-> FALSE, value |-> undefined]
       ELSE [threw |-> TRUE, value |-> undefined]

\* SparseMatrix.getSegment
getSegment(W, s, row, col) == getContainingSegment(W, s, Pos(row, col))

\* SparseMatrix.getTag
getTag(W, s, row, col) ==
    LET c == getSegment(W, s, row, col)
    IN IF c.segment = 0 THEN [threw |-> TRUE, value |-> NoTag]
       ELSE IF W.segs[c.segment].kind = "run"
       THEN [threw |-> FALSE, value |-> W.segs[c.segment].tags[c.offset + 1]]
       ELSE [threw |-> FALSE, value |-> NoTag]

\* setTag that always tags the first cell of the run
setTagFirstCell(W, s, row, col, tag) ==
    LET c == getSegment(W, s, row, col)
    IN IF c.segment = 0 THEN [W |-> W, event |-> NoEvent, threw |-> TRUE]
       ELSE IF W.segs[c.segment].kind = "run"
       THEN [W |-> [W EXCEPT !.segs[c.segment].tags[1] = tag],
             event |-> NoEvent, threw |-> FALSE]
       ELSE [W |-> W, event |-> NoEvent, threw |-> tag # NoTag]

\* SparseMatrix.setTag
setTag(W, s, row, col, tag) ==
    LET c == getSegment(W, s, row, col)
    IN IF c.segment = 0 THEN [W |-> W, event |-> NoEvent, threw |-> TRUE]
       ELSE IF W.segs[c.segment].kind = "run"
       THEN [W |-> [W EXCEPT !.segs[c.segment].tags[c.offset + 1] = tag],
             event |-> NoEvent, threw |-> FALSE]
       ELSE [W |-> W, event |-> NoEvent, threw |-> tag # NoTag]

\* SparseMatrix.insertRows
insertRows(W, s, row, n) ==
    clientInsertSegmentLocal(W, s, Pos(row, 0), PaddingSegment(maxCols * n))

\* removeRows that removes the rows behind the ones asked for
removeRowsBehind(W, s, row, n) ==
    clientRemoveRangeLocal(W, s, Pos(row + n, 0), Pos(row + n, 0) + maxCols * n)

\* SparseMatrix.removeRows
removeRows(W, s, row, n) ==
    LET pos == Pos(row, 0)
    IN clientRemoveRangeLocal(W, s, pos, pos + maxCols * n)

\* the loop of moveAsPadding from row r on; numRows is read before every turn
\* the operations the client returns for the caller to submit
createRemoveRangeOp(start, end) == [type |-> REMOVE, pos1 |-> start, pos2 |-> end]

createInsertSegmentOp(pos, seg) == [type |-> INSERT, pos1 |-> pos, seg |-> toJSONObject(seg)]

createGroupOp(ops) == [type |-> GROUP, ops |-> ops]

RECURSIVE moveRows(_, _, _, _, _, _, _, _, _)
\* one turn of the loop: the columns are removed (rem), then the padding is
\* inserted (ins); both operations are pushed to ops
movePadding(rem, s, destCol, numCols, rowStart) ==
    clientInsertSegmentLocal(rem.W, s, rowStart + destCol, PaddingSegment(numCols))

moveNextRow(rem, ins, s, srcCol, destCol, numCols, r, rowStart, ops) ==
    moveRows(ins.W, s, srcCol, destCol, numCols, r + 1, rowStart + maxCols,
             IF ins.event = NoEvent THEN rem.event ELSE ins.event,
             ops \o <<createRemoveRangeOp(rowStart + srcCol, rowStart + srcCol + numCols),
                      IF ins.event = NoEvent THEN undefined
                      ELSE createInsertSegmentOp(rowStart + destCol,
                                                 PaddingSegment(numCols))>>)

moveRow(rem, s, srcCol, destCol, numCols, r, rowStart, ops) ==
    moveNextRow(rem, movePadding(rem, s, destCol, numCols, rowStart),
                s, srcCol, destCol, numCols, r, rowStart, ops)

moveRows(W, s, srcCol, destCol, numCols, r, rowStart, last, ops) ==
    IF r < numRows(W, s)
    THEN moveRow(clientRemoveRangeLocal(W, s, rowStart + srcCol,
                                        rowStart + srcCol + numCols),
                 s, srcCol, destCol, numCols, r, rowStart, ops)
    ELSE [W |-> W, event |-> last, threw |-> FALSE, ops |-> ops]

\* submitSequenceMessage(createGroupOp(...ops)) after the loop
submitGroup(moved) ==
    [W |-> moved.W, event |-> moved.event, threw |-> moved.threw,
     submitted |-> <<createGroupOp(moved.ops)>>]

\* a moveAsPadding that submits every operation on its own
submitEach(moved) ==
    [W |-> moved.W, event |-> moved.event, threw |-> moved.threw,
     submitted |-> moved.ops]

moveAsPaddingUngrouped(W, s, srcCol, destCol, numCols) ==
    submitEach(moveRows(W, s, srcCol, destCol, numCols, 0, 0, NoEvent, <<>>))

\* SparseMatrix.moveAsPadding
moveAsPadding(W, s, srcCol, destCol, numCols) ==
    submitGroup(moveRows(W, s, srcCol, destCol, numCols, 0, 0, NoEvent, <<>>))

\* insertCols that puts the padding one column further right
insertColsOneOff(W, s, col, numCols) ==
    moveAsPadding(W, s, maxCol - numCols, col + 1, numCols)

\* SparseMatrix.insertCols
insertCols(W, s, col, numCols) == moveAsPadding(W, s, maxCol - numCols, col, numCols)

\* removeCols that puts the padding back where it removed the columns
removeColsInPlace(W, s, col, numCols) == moveAsPadding(W, s, col, col, numCols)

\* SparseMatrix.removeCols
removeCols(W, s, col, numCols) == moveAsPadding(W, s, col, maxCol - numCols, numCols)

\* ------------------------------------------------------ matrix: actions
\* Revertable r exists and is not the open Revertable of any sequence
Closed(r) == r <= Len(revs) /\ \A t \in Seqs : sequences[t] # r

\* the cells the properties read: the first columns and the last ones of
\* every row the matrix can hold
SampleCols == (0..8) \cup ((maxCol - 4)..maxCol)

SampleCells == (0..MaxMatrixRows - 1) \X SampleCols

\* what getItem returns for every sampled cell
Reads(W, s) == [c \in SampleCells |-> getItem(W, s, c[1], c[2])]

\* what getTag returns for every sampled cell
Tags(W, s) == [c \in SampleCells |-> getTag(W, s, c[1], c[2])]

\* what the application does: the writes <<row, col, values>>, the column
\* moves <<col, numCols>>, the tags, and the cells it reads and tags
Writes == {<<0, 0, <<"A">>>>, <<0, 1, <<"B">>>>, <<0, 0, <<"A", "B", "C", "D", "E">>>>,
           <<1, 0, <<"A">>>>}

ColMoves == {<<2, 3>>, <<0, 1>>}

TagValues == {NoTag, 1}

ReadCells == (0..MaxMatrixRows) \X {0, 5, maxCol - 1}

TagCells == {0, MaxMatrixRows} \X {0, 1}

FitsMatrix(W) == Within(W, <<MaxMatrixSegs, MaxMatrixGroups, MaxMatrixRevs>>)

\* the call record with the bookkeeping every call carries along: the cells
\* written so far, and whether rows or columns were moved since
Carry(rec, written, moved) == rec @@ [written |-> written, moved |-> moved]

Cells(row, col, n) == {<<row, col + i>> : i \in 0..n - 1}

\* a call of the matrix interface: res is its outcome, rec its record, cost
\* is 1 for a call that may change the matrix
MatrixCall(res, rec, cost) ==
    /\ rv.pc = "idle"
    /\ nedits + cost <= MaxMatrixEdits
    /\ FitsMatrix(res.W)
    /\ Assign(res.W)
    /\ delta' = res.event
    /\ call' = rec
    /\ nedits' = nedits + cost
    /\ rv' = Idle
    /\ issued' = <<>>
    /\ UNCHANGED ordererVars
    /\ UNCHANGED <<docs, detached, ncalls>>

InsertRows(s, row, n) ==
    /\ numRows(World, s) + n <= MaxMatrixRows
    /\ MatrixCall(insertRows(World, s, row, n),
                  Carry([op |-> "insertRows", row |-> row, n |-> n,
                         before |-> Reads(World, s),
                         length |-> getLength(World, s),
                         rows |-> numRows(World, s)],
                        call.written, call.moved \/ row < numRows(World, s)), 0)

\* paired: the call undoes the insertRows call made just before it
RemoveRowsCall(s, row, n, paired) ==
    MatrixCall(removeRows(World, s, row, n),
               Carry([op |-> "removeRows", row |-> row, n |-> n,
                      paired |-> paired,
                      before |-> IF paired THEN call.before ELSE Reads(World, s),
                      length |-> IF paired THEN call.length ELSE getLength(World, s)],
                     call.written, TRUE), 1)

RemoveRows(s, row, n) ==
    /\ row + n <= numRows(World, s)
    /\ RemoveRowsCall(s, row, n, call.op = "insertRows" /\ call.row = row /\ call.n = n)

SetItemsCall(res, s, row, col, values) ==
    MatrixCall(res,
        Carry([op |-> "setItems", row |-> row, col |-> col, values |-> values,
               before |-> Reads(World, s),
               after |-> Reads(res.W, s),
               frame |-> res.W.sequences[s],
               fresh |-> sequences[s] = 0,
               prev |-> IF call.op = "setItems"
                        THEN [row |-> call.row, col |-> call.col,
                              values |-> call.values, before |-> call.before,
                              after |-> call.after,
                              frame |-> call.frame, fresh |-> call.fresh]
                        ELSE NoCall],
              call.written \cup Cells(row, col, Len(values)), call.moved), 1)

SetItems(s, row, col, values) ==
    /\ row < numRows(World, s)
    /\ SetItemsCall(setItems(World, s, row, col, values), s, row, col, values)

GetItem(s, row, col) ==
    LET res == getItem(World, s, row, col)
    IN MatrixCall([W |-> World, event |-> NoEvent],
                  Carry([op |-> "getItem", row |-> row, col |-> col,
                         threw |-> res.threw, value |-> res.value],
                        call.written, call.moved), 0)

GetTag(s, row, col) ==
    LET res == getTag(World, s, row, col)
    IN MatrixCall([W |-> World, event |-> NoEvent],
                  Carry([op |-> "getTag", row |-> row, col |-> col,
                         threw |-> res.threw, value |-> res.value],
                        call.written, call.moved), 0)

SetTag(s, row, col, tag) ==
    LET res == setTag(World, s, row, col, tag)
    IN MatrixCall(res,
                  Carry([op |-> "setTag", row |-> row, col |-> col, tag |-> tag,
                         threw |-> res.threw, before |-> Tags(World, s),
                         content |-> <<segs, order, groups, revs>>,
                         kind |-> LET c == getSegment(World, s, row, col)
                                  IN IF c.segment = 0 THEN "none"
                                     ELSE segs[c.segment].kind],
                        call.written, call.moved), 1)

\* src, dest: the columns moveAsPadding removes and pads
InsertColsCall(res, s, col, n) ==
    MatrixCall(res,
               Carry([op |-> "insertCols", col |-> col, n |-> n,
                      src |-> maxCol - n, dest |-> col,
                      before |-> Reads(World, s),
                      length |-> getLength(World, s),
                      rows |-> numRows(World, s),
                      submitted |-> res.submitted],
                     call.written, TRUE), 1)

InsertCols(s, col, n) ==
    /\ numRows(World, s) > 0
    /\ col + n <= maxCol
    /\ InsertColsCall(insertCols(World, s, col, n), s, col, n)

RemoveColsCall(res, s, col, n, paired) ==
    MatrixCall(res,
               Carry([op |-> "removeCols", col |-> col, n |-> n,
                      src |-> col, dest |-> maxCol - n,
                      paired |-> paired,
                      before |-> IF paired THEN call.before ELSE Reads(World, s),
                      length |-> IF paired THEN call.length ELSE getLength(World, s),
                      rows |-> IF paired THEN call.rows ELSE numRows(World, s),
                      submitted |-> res.submitted],
                     call.written, TRUE), 1)

RemoveCols(s, col, n) ==
    /\ numRows(World, s) > 0
    /\ col + n <= maxCol
    /\ RemoveColsCall(removeCols(World, s, col, n), s, col, n,
                      call.op = "insertCols" /\ call.col = col /\ call.n = n)

\* ------------------------------------------------ specification: matrix
\* A freshly created matrix; the application inserts and removes rows and
\* columns and writes and reads cells and tags; it lays out the rows before
\* its first edit. No Handler is attached.
InitMatrix ==
    /\ segs = <<>>
    /\ order = [s1 |-> <<>>, s2 |-> <<>>]
    /\ groups = <<>>
    /\ revs = <<>>
    /\ sequences = [s1 |-> 0, s2 |-> 0]
    /\ listeners = [s1 |-> 0, s2 |-> 0]
    /\ pushed = <<>>
    /\ hist = <<>>
    /\ rv = Idle
    /\ issued = <<>>
    /\ delta = NoEvent
    /\ fed = <<>>
    /\ docs = {"s2"}
    /\ detached = {}
    /\ call = Carry([op |-> "create"], {}, FALSE)
    /\ nedits = 0
    /\ ncalls = 0
    /\ NoOrderer

NextMatrix ==
    \/ \E s \in docs, row \in 0..MaxMatrixRows :
          nedits = 0 /\ row <= numRows(World, s) /\ InsertRows(s, row, 1)
    \/ \E s \in docs : RemoveRows(s, 0, 1)
    \/ \E s \in docs, w \in Writes : SetItems(s, w[1], w[2], w[3])
    \/ \E s \in docs, c \in ReadCells : GetItem(s, c[1], c[2])
    \/ \E s \in docs, c \in TagCells : GetTag(s, c[1], c[2])
    \/ \E s \in docs, c \in TagCells, tag \in TagValues :
          c[1] < numRows(World, s) /\ SetTag(s, c[1], c[2], tag)
    \/ \E s \in docs, m \in ColMoves : InsertCols(s, m[1], m[2])
    \/ \E s \in docs, m \in ColMoves : RemoveCols(s, m[1], m[2])

SpecMatrix == InitMatrix /\ [][NextMatrix]_vars

\* -------------------------------------------------- specification: undo
\* A matrix with the Handler attached: the application lays out the rows,
\* attaches the Handler and writes cells; the stack manager closes the frame
\* of a write and undoes the frames of the last two writes, the later one
\* first, once each.
Undo(r) ==
    /\ call.op = "setItems"
    /\ Closed(r)
    /\ hist[r].done = 0
    /\ \/ r = call.frame
       \/ /\ call.prev # NoCall
          /\ r = call.prev.frame
          /\ call.frame # 0
          /\ hist[call.frame].done = 1
    /\ RevertCall(r)

InitUndo == InitMatrix

NextUndo ==
    \/ \E s \in docs, row \in 0..MaxMatrixRows :
          /\ nedits = 0 /\ listeners[s] = 0
          /\ row <= numRows(World, s)
          /\ InsertRows(s, row, 1)
    \/ \E s \in docs : listeners[s] = 0 /\ AttachSequence(s)
    \/ \E s \in docs, w \in Writes : SetItems(s, w[1], w[2], w[3])
    \/ ChangePushed
    \/ \E r \in 1..MaxMatrixRevs : Undo(r)
    \/ RevertPop
    \/ RevertSegmentIn(FALSE, <<MaxMatrixSegs, MaxMatrixGroups, MaxMatrixRevs>>)
    \/ RevertReturn

SpecUndo == InitUndo /\ [][NextUndo]_vars

\* -------------------------------------------------- specification: rows
\* A freshly created matrix; the application inserts rows anywhere, also
\* between and in front of written rows and behind the end, removes rows and
\* writes cells. No Handler is attached.
InitRows == InitMatrix

NextRows ==
    \/ \E s \in docs, row \in 0..MaxMatrixRows : InsertRows(s, row, 1)
    \/ \E s \in docs, row \in 0..MaxMatrixRows - 1 : RemoveRows(s, row, 1)
    \/ \E s \in docs, w \in Writes : SetItems(s, w[1], w[2], w[3])

SpecRows == InitRows /\ [][NextRows]_vars

\* ---------------------------------------------- specification: segments
\* Standalone segments, as the engine handles them: two runs that hold the
\* items A .. E with their tags and one padding segment; the engine appends
\* one segment to another (the other is dropped), splits a segment inside,
\* and removes a range of a segment. order.s1 lists the segments in use.
SegmentItems == <<"A", "B", "C", "D", "E">>

SegmentTags == {<<1, 2, 3, 4, 5>>, <<1, 0, 2, 0, 1>>}

PaddingSizes == {1, 3}

Tagged(items, tags) == [RunSegment(items) EXCEPT !.tags = tags]

InitSegments ==
    /\ \E k \in 1..Len(SegmentItems) - 1, tags \in SegmentTags, size \in PaddingSizes :
          /\ segs = <<Tagged(SubSeq(SegmentItems, 1, k), SubSeq(tags, 1, k)),
                      Tagged(SubSeq(SegmentItems, k + 1, Len(SegmentItems)),
                             SubSeq(tags, k + 1, Len(tags))),
                      PaddingSegment(size), PaddingSegment(2)>>
          /\ call = [op |-> "create",
                     tagOf |-> [i \in 1..Len(SegmentItems) |-> tags[i]]]
    /\ order = [s1 |-> <<1, 2, 3, 4>>, s2 |-> <<>>]
    /\ groups = <<>>
    /\ revs = <<>>
    /\ sequences = [s1 |-> 0, s2 |-> 0]
    /\ listeners = [s1 |-> 0, s2 |-> 0]
    /\ pushed = <<>>
    /\ hist = <<>>
    /\ rv = Idle
    /\ issued = <<>>
    /\ delta = NoEvent
    /\ fed = <<>>
    /\ docs = {}
    /\ detached = {}
    /\ nedits = 0
    /\ ncalls = 0
    /\ NoOrderer

SegmentCall(rec) ==
    /\ nedits < MaxSegmentOps
    /\ nedits' = nedits + 1
    /\ call' = rec @@ [tagOf |-> call.tagOf]
    /\ UNCHANGED ordererVars
    /\ UNCHANGED <<groups, revs, sequences, listeners, pushed, hist, rv, issued,
                   delta, fed, docs, detached, ncalls>>

\* the engine appends segment j to segment i and drops j, unless append throws
AppendDone(res, i, j) ==
    /\ segs' = [segs EXCEPT ![i] = res.segment]
    /\ order' = [order EXCEPT !.s1 = IF res.threw THEN @
                                      ELSE SelectSeq(@, LAMBDA x : x # j)]
    /\ SegmentCall([op |-> "append", i |-> i, j |-> j, orig |-> segs[i],
                    other |-> segs[j], threw |-> res.threw])

SegmentAppend(i, j) ==
    /\ Has(order.s1, i) /\ Has(order.s1, j) /\ i # j
    /\ segs[i].kind = "run" => segs[j].kind = "run"
    /\ AppendDone(append(segs[i], segs[j]), i, j)

\* the engine splits segment i at offset; the fragment is a new segment
SplitDone(pair, i, offset) ==
    /\ segs' = Append([segs EXCEPT ![i] = pair[1]], pair[2])
    /\ order' = [order EXCEPT !.s1 = Append(@, Len(segs) + 1)]
    /\ SegmentCall([op |-> "split", i |-> i, offset |-> offset, orig |-> segs[i],
                    fragment |-> Len(segs) + 1])

SegmentSplit(i, offset) ==
    /\ Has(order.s1, i)
    /\ 0 < offset /\ offset < segs[i].len
    /\ SplitDone(createSplitSegmentAt(segs[i], offset), i, offset)

\* the engine removes [start, end) of segment i
RemoveDone(res, i, start, end) ==
    /\ segs' = [segs EXCEPT ![i] = res.segment]
    /\ order' = order
    /\ SegmentCall([op |-> "removeRange", i |-> i, start |-> start, end |-> end,
                    orig |-> segs[i], empty |-> res.empty])

SegmentRemoveRange(i, start, end) ==
    /\ Has(order.s1, i)
    /\ 0 <= start /\ start < end /\ end <= segs[i].len
    /\ RemoveDone(segmentRemoveRange(segs[i], start, end), i, start, end)

NextSegments ==
    \/ \E i, j \in 1..Len(segs) : SegmentAppend(i, j)
    \/ \E i \in 1..Len(segs), offset \in 1..Len(SegmentItems) : SegmentSplit(i, offset)
    \/ \E i \in 1..Len(segs), start \in 0..Len(SegmentItems), end \in 1..Len(SegmentItems) :
          SegmentRemoveRange(i, start, end)

SpecSegments == InitSegments /\ [][NextSegments]_vars

\* ------------------------------------------------------------ Kafka orderer
\* MessageType members the connection sends
ClientJoin == "join"
ClientLeave == "leave"
Operation == "op"

null == "null"

\* moniker.choose(): a random name, so two connections may get the same one
ClientIds == {"c1", "c2"}

\* the messages a client passes to order()
Messages == {"m"}

\* The ordering service as one record, so that calls compose.
Orderer == [details |-> details, existing |-> existing,
            connections |-> connections, producer |-> producer]

\* submitRawOperation: producer.send(JSON.stringify(message), documentId); the
\* producer keeps the messages in the order of the send calls
submitRawOperation(O, message) == [O EXCEPT !.producer = Append(@, message)]

\* constructor of KafkaOrdererConnection: keeps the flag and the client id and
\* submits the ClientJoin message. conn is the connection the message came
\* from; joined tells whether Create has handed the connection to its caller.
KafkaOrdererConnection(O, ex, clientId) ==
    submitRawOperation(
        [O EXCEPT !.connections = Append(@, [existing |-> ex, clientId |-> clientId,
                                             joined |-> FALSE])],
        [clientId |-> null, type |-> ClientJoin, contents |-> clientId,
         conn |-> Len(O.connections) + 1])

\* KafkaOrdererConnection.Create up to its await: choose the client id and
\* construct the connection
Create(O, ex, clientId) == KafkaOrdererConnection(O, ex, clientId)

\* a connect() that leaves the flag of the orderer as it is
connectKeepsFlag(O, clientId) == Create(O, O.existing, clientId)

\* KafkaOrderer.connect: Create runs up to its await inside the call, then the
\* flag is set
connect(O, clientId) == [Create(O, O.existing, clientId) EXCEPT !.existing = TRUE]

\* KafkaOrdererConnection.order
orderMessage(O, c, message) ==
    submitRawOperation(O, [clientId |-> O.connections[c].clientId, type |-> Operation,
                           contents |-> message, conn |-> c])

\* KafkaOrdererConnection.disconnect
disconnect(O, c) ==
    submitRawOperation(O, [clientId |-> null, type |-> ClientLeave,
                           contents |-> O.connections[c].clientId, conn |-> c])

sequenceVars == <<segs, order, groups, revs, sequences, listeners, pushed, hist, rv,
                  issued, delta, fed, docs, detached, call, nedits, ncalls>>

OrdererCall(O) ==
    /\ Len(O.producer) <= MaxSent
    /\ details' = O.details
    /\ existing' = O.existing
    /\ connections' = O.connections
    /\ producer' = O.producer
    /\ UNCHANGED sequenceVars

\* a socket handler calls connect(); the call runs up to the await of Create
Connect(clientId) ==
    /\ Len(connections) < MaxConnections
    /\ OrdererCall(connect(Orderer, clientId))

\* the socket.join promises of connection c resolve: Create and connect
\* return the connection to the caller
SocketJoined(c) ==
    /\ ~connections[c].joined
    /\ connections' = [connections EXCEPT ![c].joined = TRUE]
    /\ UNCHANGED <<details, existing, producer>>
    /\ UNCHANGED sequenceVars

\* the caller of connect() passes a message to order() of its connection
Order(c, message) ==
    /\ connections[c].joined
    /\ OrdererCall(orderMessage(Orderer, c, message))

\* the caller of connect() disconnects
Disconnect(c) ==
    /\ connections[c].joined
    /\ OrdererCall(disconnect(Orderer, c))

\* KafkaOrderer.Create and the constructor: the flag starts as
\* details.existing, which tells whether storage found the document
InitOrderer ==
    /\ segs = <<>>
    /\ order = [s1 |-> <<>>, s2 |-> <<>>]
    /\ groups = <<>>
    /\ revs = <<>>
    /\ sequences = [s1 |-> 0, s2 |-> 0]
    /\ listeners = [s1 |-> 0, s2 |-> 0]
    /\ pushed = <<>>
    /\ hist = <<>>
    /\ rv = Idle
    /\ issued = <<>>
    /\ delta = NoEvent
    /\ fed = <<>>
    /\ docs = {}
    /\ detached = {}
    /\ call = NoCall
    /\ nedits = 0
    /\ ncalls = 0
    /\ details \in {[existing |-> e] : e \in BOOLEAN}
    /\ existing = details.existing
    /\ connections = <<>>
    /\ producer = <<>>

NextOrderer ==
    \/ \E clientId \in ClientIds : Connect(clientId)
    \/ \E c \in 1..MaxConnections : c <= Len(connections) /\ SocketJoined(c)
    \/ \E c \in 1..MaxConnections, message \in Messages :
          c <= Len(connections) /\ Order(c, message)
    \/ \E c \in 1..MaxConnections : c <= Len(connections) /\ Disconnect(c)

SpecOrderer == InitOrderer /\ [][NextOrderer]_vars

\* ============================================================== properties
Known == {INSERT, REMOVE, ANNOTATE}

Reverting == rv.pc \in {"inner", "outer"}

Finished == rv.pc = "idle" /\ rv.outcome \in {"returned", "threw"}

\* C1: round trip. When revert() is called on a Revertable right after the
\* local inserts, removes and annotates it recorded (nothing else touched the
\* sequence since its first recorded edit), then once revert() has ended the
\* sequence reads exactly as before that first edit: same items and same
\* property value at every position.
C1_RoundTrip ==
    (Finished /\ rv.clean) => View(World, revs[rv.r].sequence) = hist[rv.r].base

\* The same round trip, for calls that return normally only.
RoundTripWhenReturned ==
    (rv.pc = "idle" /\ rv.outcome = "returned" /\ rv.clean)
        => View(World, revs[rv.r].sequence) = hist[rv.r].base

\* C2: revert() works through the entries last-recorded-first. While an entry
\* that was in the list when revert() was called is being inverted, it is no
\* longer in the list, every entry recorded after it has left the list with
\* all its segments unlinked, and every entry recorded before it is still in
\* the list at its place.
C2_LastRecordedFirst ==
    \A k \in 1..Len(rv.start) :
        (Reverting /\ rv.tracked = rv.start[k]) =>
            /\ ~Has(revs[rv.r].tracking, rv.tracked)
            /\ \A j \in 1..Len(rv.start) :
                  /\ j > k => /\ ~Has(revs[rv.r].tracking, rv.start[j])
                              /\ groups[rv.start[j].trackingGroup] = <<>>
                  /\ j < k => /\ j <= Len(revs[rv.r].tracking)
                              /\ revs[rv.r].tracking[j] = rv.start[j]

C2_Witness ==
    /\ rv.pc = "inner"
    /\ Len(rv.start) >= 2
    /\ rv.tracked = rv.start[1]

\* C3: reverting an annotate entry re-applies the recorded property delta and
\* does not end in the fatal unsupported-kind error: revert() never throws
\* while the entry it is inverting is an annotate entry.
C3_AnnotateDoesNotThrow ==
    ~(rv.pc = "idle" /\ rv.outcome = "threw" /\ rv.tracked.operation = ANNOTATE)

\* C4: revert() throws exactly when it meets an entry of a kind other than
\* insert, remove, annotate, and then it has issued nothing for that segment:
\* a throw implies an unknown kind and no issued operation, and an entry whose
\* segments were all processed without a throw is of a known kind.
C4_ThrowsExactlyOnUnknownKind ==
    /\ (rv.pc = "idle" /\ rv.outcome = "threw")
          => (rv.tracked.operation \notin Known /\ issued = <<>>)
    /\ (rv.pc = "outer" /\ rv.tracked # NoEntry) => rv.tracked.operation \in Known

C3_Witness ==
    /\ rv.pc = "idle" /\ rv.outcome = "threw"
    /\ rv.tracked.operation = ANNOTATE
    /\ issued # <<>> /\ issued[1].op = "annotateRange"

\* The segment revert() is about to process and the sequence it belongs to.
Tg == rv.tracked.trackingGroup

Sg == groups[Tg][1]

Sq == revs[rv.r].sequence

At(op) == rv.pc = "inner" /\ rv.tracked.operation = op

\* C5: reverting an insert entry never double-removes. In the step that
\* processes a segment of an insert entry: if the segment is not removed,
\* exactly one remove is issued, over [position, position + length) of that
\* segment, and it marks that segment and no other; if the segment is already
\* removed, nothing is issued and no segment changes. Either way the segment
\* leaves the entry's group.
C5_Step ==
    At(INSERT) =>
        LET pos == getPosition(World, Sq, Sg) IN
        /\ ~Has(groups'[Tg], Sg)
        /\ order' = order
        /\ IF segs[Sg].removed
             THEN issued' = <<>> /\ segs' = segs /\ delta' = NoEvent
             ELSE /\ issued' = <<Op("removeRange", Sq, Sg, pos, pos + segs[Sg].len, 0)>>
                  /\ segs' = [segs EXCEPT ![Sg].removed = TRUE]
                  /\ delta'.deltaOperation = REMOVE
                  /\ delta'.ranges = <<[segment |-> Sg, propertyDeltas |-> NoDelta]>>

C5_InsertRevertNeverDoubleRemoves == [][C5_Step]_vars

\* revert() has just skipped an already removed segment of an insert entry.
C5_Witness ==
    /\ Reverting /\ rv.tracked.operation = INSERT
    /\ rv.seen # {}
    /\ issued = <<>> /\ delta = NoEvent
    /\ \A id \in rv.seen : segs[id].removed

\* C6: reverting a remove entry. In the step that processes a removed segment
\* of a remove entry, a new segment with the old one's kind, content, length
\* and properties is placed immediately before the old one; every group other
\* than the entry's own that linked the old segment links the new one
\* instead; afterwards no group links the old segment, and the entry's own
\* group links neither.
C6_Step ==
    (At(REMOVE) /\ segs[Sg].removed) =>
        LET new == Len(segs) + 1 IN
        /\ Len(segs') = new
        /\ \A id \in 1..Len(segs) : segs'[id] = segs[id]
        /\ segs'[new] = [segs[Sg] EXCEPT !.removed = FALSE, !.tags = AsSeq([i \in 1..Len(@) |-> 0])]
        /\ order' = [order EXCEPT ![Sq] = InsertBefore(@, IndexOf(@, Sg), new)]
        /\ issued' = <<Op("insertAtReferencePosition", Sq, Sg, 0, 0, new)>>
        /\ \A g \in 1..Len(groups) :
              /\ ~Has(groups'[g], Sg)
              /\ (g # Tg /\ Has(groups[g], Sg)) => Has(groups'[g], new)
        /\ ~Has(groups'[Tg], new)

C6_RemoveRevertMigratesGroups == [][C6_Step]_vars

\* A remove was reverted and an annotate entry of another Revertable, recorded
\* on the old segment, now links the reinserted one.
C6_Witness ==
    /\ issued # <<>> /\ issued[1].op = "insertAtReferencePosition"
    /\ \E r \in 1..Len(revs) : \E i \in 1..Len(revs[r].tracking) :
          /\ r # rv.r
          /\ revs[r].tracking[i].operation = ANNOTATE
          /\ Has(groups[revs[r].tracking[i].trackingGroup], issued[1].val)

\* The (kind, property delta) pair that decides coalescing.
KeyOf(kind, d) == <<kind, d>>

\* C7: coalescing in add(). When one registered handler records a local
\* event into a Revertable, the entries already in the list stay as they are,
\* a new entry is appended exactly for each range whose (kind, delta) differs
\* from that of the range before it (for the first range: from the tail entry
\* the list had before the call, if any), and every range's segment is linked
\* in the group of the entry it falls into, which carries the range's kind
\* and delta. So N matching ranges yield one entry linking all N segments,
\* and ranges matching the tail of an earlier call join that tail.
C7_Step ==
    (delta'.isLocal /\ delta'.deltaOperation # "none" /\ listeners[delta'.seq] = 1) =>
        LET R == sequences'[delta'.seq]
            old == IF R <= Len(revs) THEN revs[R].tracking ELSE <<>>
            new == revs'[R].tracking
            kind == delta'.deltaOperation
            rs == delta'.ranges
            key(i) == KeyOf(kind, rs[i].propertyDeltas)
            prev(i) == IF i > 1 THEN key(i - 1)
                       ELSE IF old = <<>> THEN KeyOf("none", NoDelta)
                       ELSE KeyOf(Last(old).operation, Last(old).propertyDelta)
            starts == {i \in 1..Len(rs) : key(i) # prev(i)}
            at(i) == Len(old) + Cardinality({j \in starts : j <= i})
        IN /\ Len(new) = Len(old) + Cardinality(starts)
           /\ \A j \in 1..Len(old) : new[j] = old[j]
           /\ \A i \in 1..Len(rs) :
                 /\ at(i) >= 1
                 /\ KeyOf(new[at(i)].operation, new[at(i)].propertyDelta) = key(i)
                 /\ Has(groups'[new[at(i)].trackingGroup], rs[i].segment)

C7_Coalescing == [][C7_Step]_vars

\* A one-range event was recorded into the entry an earlier add() call had
\* created, so one entry links segments of two calls.
C7_Witness ==
    /\ delta.isLocal /\ Len(delta.ranges) = 1 /\ listeners[delta.seq] = 1
    /\ delta.deltaOperation = INSERT
    /\ rv.pc = "idle" /\ rv.r = 0
    /\ LET R == sequences[delta.seq] IN
       /\ R # 0
       /\ Len(revs[R].tracking) = 1
       /\ Len(groups[revs[R].tracking[1].trackingGroup]) >= 2
       /\ Has(groups[revs[R].tracking[1].trackingGroup], delta.ranges[1].segment)

\* C8: one-shot. Once revert() has returned or disgard() has run, the entry
\* list of the Revertable is empty.
C8_EmptyAfterCompletion ==
    (rv.pc = "idle" /\ rv.outcome \in {"returned", "discarded"})
        => revs[rv.r].tracking = <<>>

\* C8, second half: a further revert() or disgard() call on a Revertable that
\* already completed one, entered with the list still empty, issues no
\* operation, changes no segment and no tracking link.
C8_Step ==
    (rv'.r # 0 /\ rv'.r <= Len(hist) /\ hist[rv'.r].done >= 1 /\ rv'.start = <<>>) =>
        /\ issued' = <<>>
        /\ segs' = segs /\ order' = order
        /\ groups' = groups
        /\ revs' = revs
        /\ rv'.pc \in {"idle", "outer"}

C9_Step ==
    (rv.pc = "idle" /\ rv'.outcome = "discarded") =>
        LET r == rv'.r
            own == {revs[r].tracking[i].trackingGroup : i \in 1..Len(revs[r].tracking)}
        IN /\ revs'[r].tracking = <<>>
           /\ \A g \in own : groups'[g] = <<>>
           /\ Len(groups') = Len(groups)
           /\ \A g \in (1..Len(groups)) \ own : groups'[g] = groups[g]
           /\ \A q \in 1..Len(revs) : q # r => revs'[q] = revs[q]
           /\ issued' = <<>> /\ delta' = NoEvent
           /\ segs' = segs /\ order' = order
           /\ sequences' = sequences /\ pushed' = pushed

C9_DiscardOnlyReleasesOwnLinks == [][C9_Step]_vars

\* disgard() released links on segments that another group still links.
C9_Witness ==
    /\ rv.pc = "idle" /\ rv.outcome = "discarded"
    /\ rv.start # <<>>
    /\ \A i \in 1..Len(rv.start) : groups[rv.start[i].trackingGroup] = <<>>
    /\ \E g \in 1..Len(groups) : Range(groups[g]) \cap rv.seen # {}

\* C10: the handler ignores non-local delta events. A step that delivers a
\* non-local event creates no Revertable and changes none, pushes nothing to
\* the stack manager, leaves the open-Revertable mapping alone, creates no
\* group, and links no segment into a group: a group gains at most the
\* fragment split off the end of a segment it already linked, never the
\* segment the event inserted.
C10_Step ==
    (delta'.deltaOperation # "none" /\ ~delta'.isLocal) =>
        /\ revs' = revs
        /\ pushed' = pushed
        /\ sequences' = sequences
        /\ Len(groups') = Len(groups)
        /\ \A g \in 1..Len(groups) :
              /\ Range(groups[g]) \subseteq Range(groups'[g])
              /\ \A x \in Range(groups'[g]) \ Range(groups[g]) :
                    LET q == order'[delta'.seq] IN
                    /\ x > Len(segs)
                    /\ delta'.deltaOperation = INSERT
                          => \A i \in 1..Len(delta'.ranges) : delta'.ranges[i].segment # x
                    /\ \E y \in Range(groups[g]) :
                          /\ Has(q, y) /\ IndexOf(q, y) < IndexOf(q, x)
                          /\ segs'[x].items = SubSeq(segs[y].items, Len(segs[y].items)
                                                   - Len(segs'[x].items) + 1, Len(segs[y].items))
                          /\ \A k \in (IndexOf(q, y) + 1)..(IndexOf(q, x) - 1) : q[k] > Len(segs)

C10_HandlerIgnoresNonLocal == [][C10_Step]_vars

\* A non-local event reached a registered handler while a Revertable is open
\* for that sequence.
C10_Witness ==
    /\ delta.deltaOperation # "none" /\ ~delta.isLocal
    /\ listeners[delta.seq] > 0
    /\ sequences[delta.seq] # 0

\* every range of event ev is linked to an entry of Revertable r that has the
\* event's kind
Recorded(rs, gs, ev, r) ==
    \A i \in 1..Len(ev.ranges) :
        \E k \in 1..Len(rs[r].tracking) :
            /\ rs[r].tracking[k].operation = ev.deltaOperation
            /\ Has(gs[rs[r].tracking[k].trackingGroup], ev.ranges[i].segment)

\* C11: one Revertable per sequence and operation window. A local delta of an
\* attached sequence that has no open Revertable creates exactly one, hands
\* it to pushToCurrentOperation once and records it as open; a local delta of
\* a sequence that has an open Revertable creates and pushes nothing; either
\* way every registered handler call feeds the event to add() of that one
\* Revertable, which afterwards holds the event's ranges. Every Revertable
\* is pushed exactly once, and the Revertable open for a sequence belongs to
\* that sequence, so two sequences never share one.
C11_Step ==
    LET s == delta'.seq
        R == sequences[s]
        new == Len(revs) + 1
        T == IF R = 0 THEN new ELSE R
    IN /\ (delta'.isLocal /\ s \in Seqs /\ listeners[s] > 0) =>
            /\ IF R = 0
               THEN /\ Len(revs') = Len(revs) + 1
                    /\ pushed' = Append(pushed, new)
                    /\ revs'[new].sequence = s
               ELSE /\ Len(revs') = Len(revs)
                    /\ pushed' = pushed
            /\ sequences'[s] = T
            /\ fed' = AsSeq([i \in 1..listeners[s] |-> T])
            /\ Recorded(revs', groups', delta', T)
       /\ pushed' = AsSeq([i \in 1..Len(revs') |-> i])
       /\ \A t \in Seqs : sequences'[t] # 0 =>
              /\ sequences'[t] <= Len(revs')
              /\ revs'[sequences'[t]].sequence = t

C11_OneRevertablePerWindow == [][C11_Step]_vars

\* both sequences have their own open Revertable and the last local delta,
\* one of s2, went to the Revertable of s2
C11_Witness ==
    /\ delta.isLocal /\ delta.seq = "s2"
    /\ sequences = [s1 |-> 1, s2 |-> 2]
    /\ pushed = <<1, 2>>
    /\ fed = <<2>>
    /\ revs[1].sequence = "s1" /\ revs[2].sequence = "s2"
    /\ Len(revs[1].tracking) > 0 /\ Len(revs[2].tracking) > 0

\* C12: the operation-changed notification. The notification leaves the map
\* empty for every sequence; whenever a step forgets the open Revertable of
\* one sequence it forgets those of all sequences (only the Revertable
\* created by the very push that caused the notification is recorded after
\* it); a map entry only ever changes to undefined or to a Revertable created
\* in that step, so the first local delta of an attached sequence after the
\* notification creates and pushes a new Revertable; and a Revertable that
\* is not open, which includes every one that was open before a
\* notification, gets no add() call, no new entry and is never open again.
C12_Step ==
    LET new == Len(revs) + 1
        cleared == \E t \in Seqs : sequences[t] # 0 /\ sequences'[t] # sequences[t]
    IN /\ ChangePushed => \A t \in Seqs : sequences'[t] = 0
       /\ cleared => \A t \in Seqs :
              \/ sequences'[t] = 0
              \/ sequences[t] = 0 /\ sequences'[t] = new /\ t = delta'.seq
       /\ \A t \in Seqs : sequences'[t] \in {sequences[t], 0, new}
       /\ (delta'.isLocal /\ delta'.seq \in Seqs /\ listeners[delta'.seq] > 0
              /\ sequences[delta'.seq] = 0) =>
              /\ Len(revs') = new
              /\ pushed' = Append(pushed, new)
              /\ fed' = AsSeq([i \in 1..listeners[delta'.seq] |-> new])
       /\ \A r \in 1..Len(revs) : Closed(r) =>
              /\ r \notin Range(fed')
              /\ \A t \in Seqs : sequences'[t] # r
              /\ Len(revs'[r].tracking) <= Len(revs[r].tracking)

C12_NotificationStartsNewWindow == [][C12_Step]_vars

\* after a notification the first local delta of s1 went to a second
\* Revertable of s1, and the first one kept its entry
C12_Witness ==
    /\ Len(revs) = 2
    /\ revs[1].sequence = "s1" /\ revs[2].sequence = "s1"
    /\ sequences.s1 = 2
    /\ delta.isLocal /\ delta.seq = "s1"
    /\ fed = <<2>>
    /\ pushed = <<1, 2>>
    /\ Len(revs[1].tracking) = 1 /\ Len(revs[2].tracking) = 1

\* C13: attachSequence and detachSequence are idempotent. However often the
\* Handler was attached to a sequence, a local delta of that sequence is
\* recorded exactly once (one add() call), and one detachSequence call leaves
\* the sequence without any registration of the handler.
C13_Step ==
    /\ (delta'.isLocal /\ delta'.seq \in Seqs /\ listeners[delta'.seq] > 0) =>
           Len(fed') = 1
    /\ \A s \in Seqs : DetachSequence(s) => listeners'[s] = 0

C13_AttachDetachIdempotent == [][C13_Step]_vars

\* C14: detaching stops recording. Once detachSequence(s) was called (and
\* attachSequence(s) was not called again), a local delta of s creates no
\* Revertable, pushes nothing and reaches no add(): no Revertable gets an
\* entry for it; and the detachSequence call itself leaves every Revertable's
\* entries and tracking links as they were.
C14_Step ==
    /\ \A s \in detached : (delta'.isLocal /\ delta'.seq = s) =>
           /\ fed' = <<>>
           /\ Len(revs') = Len(revs)
           /\ pushed' = pushed
           /\ sequences' = sequences
           /\ \A r \in 1..Len(revs) :
                  r # rv.r => Len(revs'[r].tracking) = Len(revs[r].tracking)
    /\ \A s \in Seqs : DetachSequence(s) => revs' = revs /\ groups' = groups

C14_DetachStopsRecording == [][C14_Step]_vars

\* C15: grid addressing is a bijection. For every row below maxRow and every
\* column below maxCol, positionToRowCol(rowColToPosition(row, col)) is
\* (row, col), and two different addresses never have the same position.
C15_GridBijection ==
    /\ call.op = "rowcol" =>
           /\ call.back.row = call.row
           /\ call.back.col = Signed(FALSE, Num(call.col))
    /\ call.op \in {"position", "rowcol"} =>
           \A row \in GridRows, col \in GridCols :
               <<row, col>> # <<call.row, call.col>> =>
                   rowColToPosition(row, Num(col)) # call.position

\* the matrix of the matrix specification
Matrix == "s2"

\* the last call was getItem on a cell that no setItems wrote, in a matrix
\* whose rows and columns were never moved
ReadNeverWritten ==
    /\ call.op = "getItem"
    /\ <<call.row, call.col>> \notin call.written
    /\ ~call.moved

Covering(row, col) ==
    LET c == getSegment(World, Matrix, row, col)
    IN IF c.segment = 0 THEN "none" ELSE segs[c.segment].kind

\* the matrix and what is recorded of it
Content == <<segs, order, groups, revs>>

\* C17: tag writes. setTag of a defined tag on a cell covered by a padding
\* segment raises an error and leaves the sequence as it was; setTag of
\* undefined on any covered cell raises nothing, and on a padding-covered cell
\* leaves the sequence as it was; on a run-covered cell setTag(row, col, t)
\* raises nothing, getTag(row, col) is t afterwards and getTag of every other
\* cell is what it was; getTag on a padding-covered cell returns undefined.
C17_TagWrites ==
    /\ call.op = "setTag" =>
          /\ (call.kind = "pad" /\ call.tag # NoTag)
                 => call.threw /\ Content = call.content
          /\ (call.kind # "none" /\ call.tag = NoTag) => ~call.threw
          /\ (call.kind = "pad" /\ call.tag = NoTag) => Content = call.content
          /\ call.kind = "run" =>
                 /\ ~call.threw
                 /\ Tags(World, Matrix)[<<call.row, call.col>>] =
                        [threw |-> FALSE, value |-> call.tag]
                 /\ \A c \in SampleCells \ {<<call.row, call.col>>} :
                        Tags(World, Matrix)[c] = call.before[c]
    /\ (call.op = "getTag" /\ Covering(call.row, call.col) = "pad")
          => ~call.threw /\ call.value = NoTag

\* the second cell of a run was tagged while the first keeps its own tag
C17_Witness ==
    /\ call.op = "setTag" /\ call.kind = "run" /\ ~call.threw
    /\ call.col = 1 /\ call.tag # NoTag
    /\ getTag(World, Matrix, call.row, 1).value = call.tag
    /\ call.before[<<call.row, 0>>].value = NoTag
    /\ getTag(World, Matrix, call.row, 0).value = NoTag
    /\ getSegment(World, Matrix, call.row, 1).segment =
          getSegment(World, Matrix, call.row, 0).segment

\* C18: column symmetry. After insertCols(c, n) immediately followed by
\* removeCols(c, n), every cell (r, j) of an existing row with j < maxCol - n
\* reads what it read before the pair, the sequence has the length it had,
\* and the matrix has the rows it had (each row starts where it started).
C18_ColumnSymmetry ==
    (call.op = "removeCols" /\ call.paired) =>
        /\ \A c \in SampleCells :
              (c[1] < call.rows /\ c[2] < maxCol - call.n)
                  => Reads(World, Matrix)[c] = call.before[c]
        /\ getLength(World, Matrix) = call.length
        /\ numRows(World, Matrix) = call.rows
        /\ call.length = call.rows * maxCols

\* the pair was made at column 2 of a row whose columns 0..4 are written
C18_Witness ==
    /\ call.op = "removeCols" /\ call.paired
    /\ call.col = 2 /\ call.n = 3
    /\ call.before[<<0, 4>>] = [threw |-> FALSE, value |-> "E"]
    /\ getItem(World, Matrix, 0, 4) = [threw |-> FALSE, value |-> "E"]
    /\ getItem(World, Matrix, 0, 2) = [threw |-> FALSE, value |-> "C"]

\* what getItem returns for an empty cell
Empty == [threw |-> FALSE, value |-> undefined]

\* C19: insertCols(c, n) shifts the columns right in every existing row: the
\* value read before at (r, j), c <= j < maxCol - n, is read afterwards at
\* (r, j + n), the cells (r, c) .. (r, c + n - 1) read empty, and the cells
\* (r, j) with j < c read what they read before.
C19_InsertColsShiftsRight ==
    call.op = "insertCols" =>
        \A cell \in SampleCells :
            LET r == cell[1]
                j == cell[2]
            IN r < call.rows =>
                /\ j < call.col => Reads(World, Matrix)[cell] = call.before[cell]
                /\ (call.col <= j /\ j < call.col + call.n)
                      => Reads(World, Matrix)[cell] = Empty
                /\ (call.col <= j /\ j < maxCol - call.n
                       /\ <<r, j + call.n>> \in SampleCells)
                      => Reads(World, Matrix)[<<r, j + call.n>>] = call.before[cell]

\* insertCols(2, 3) on one written row of 5 populated columns: columns
\* [2,5) now read empty and columns [5,8) read what [2,5) read
C19_Witness ==
    /\ call.op = "insertCols" /\ call.col = 2 /\ call.n = 3 /\ call.rows = 1
    /\ \A j \in 0..4 : call.before[<<0, j>>].value = <<"A", "B", "C", "D", "E">>[j + 1]
    /\ \A j \in 0..1 : getItem(World, Matrix, 0, j) = call.before[<<0, j>>]
    /\ \A j \in 2..4 : getItem(World, Matrix, 0, j) = Empty
    /\ \A j \in 5..7 : getItem(World, Matrix, 0, j) = call.before[<<0, j - 3>>]

\* the cells a write covers
Range_(w) == Cells(w.row, w.col, Len(w.values))

\* revert() of Revertable r has just returned
Undone(r) == r # 0 /\ rv.pc = "idle" /\ rv.outcome = "returned" /\ rv.r = r

\* C20: writes recorded as separate undo frames are undone cell by cell in
\* reverse order. Once revert() of the Revertable of the last write has
\* returned, every cell of the written range reads what it read before that
\* write and every other cell reads what it read after it; once revert() of
\* the Revertable of the write before has returned as well, every cell of
\* that write's range reads what it read before that write, and every other
\* cell reads what it read after the first revert.
C20_WritesUndoneInReverse ==
    (call.op = "setItems" /\ call.fresh) =>
        /\ Undone(call.frame) =>
              \A c \in SampleCells :
                  Reads(World, Matrix)[c] =
                      IF c \in Range_(call) THEN call.before[c] ELSE call.after[c]
        /\ (call.prev # NoCall /\ call.prev.fresh /\ Undone(call.prev.frame)
              /\ call.frame # 0 /\ hist[call.frame].done = 1) =>
              \A c \in SampleCells :
                  Reads(World, Matrix)[c] =
                      IF c \in Range_(call.prev) THEN call.prev.before[c]
                      ELSE IF c \in Range_(call) THEN call.before[c]
                      ELSE call.after[c]

\* write (0,0) = "A", write (0,1) = "B", the second write is undone and then
\* the first: both cells read empty
C20_Witness ==
    /\ call.op = "setItems" /\ call.fresh
    /\ <<call.row, call.col, call.values>> = <<0, 1, <<"B">>>>
    /\ call.prev # NoCall /\ call.prev.fresh
    /\ <<call.prev.row, call.prev.col, call.prev.values>> = <<0, 0, <<"A">>>>
    /\ call.before[<<0, 0>>] = [threw |-> FALSE, value |-> "A"]
    /\ call.after[<<0, 1>>] = [threw |-> FALSE, value |-> "B"]
    /\ Undone(call.prev.frame)
    /\ hist[call.frame].done = 1
    /\ getItem(World, Matrix, 0, 0) = Empty
    /\ getItem(World, Matrix, 0, 1) = Empty

\* C21: row symmetry. insertRows(r, n) at a row boundary of the matrix
\* (r at most numRows) makes the sequence n * maxCols positions longer, the
\* rows r .. r + n - 1 read empty, every cell of a row below r reads what it
\* read and every cell of a row at or above r is read n rows further, same
\* column; after insertRows(r, n) immediately followed by removeRows(r, n)
\* every cell reads what it read before the pair and the sequence has the
\* length it had.
C21_RowSymmetry ==
    /\ (call.op = "insertRows" /\ call.row <= call.rows) =>
          /\ getLength(World, Matrix) = call.length + call.n * maxCols
          /\ numRows(World, Matrix) = call.rows + call.n
          /\ \A cell \in SampleCells :
                LET r == cell[1]
                    j == cell[2]
                IN /\ (r >= call.row /\ r < call.row + call.n)
                         => Reads(World, Matrix)[cell] = Empty
                   /\ r < call.row
                         => Reads(World, Matrix)[cell] = call.before[cell]
                   /\ (r >= call.row /\ r < call.rows
                          /\ <<r + call.n, j>> \in SampleCells)
                         => Reads(World, Matrix)[<<r + call.n, j>>] = call.before[cell]
    /\ (call.op = "removeRows" /\ call.paired) =>
          /\ Reads(World, Matrix) = call.before
          /\ getLength(World, Matrix) = call.length

\* a row was inserted in front of a written row and removed again
C21_Witness ==
    /\ call.op = "removeRows" /\ call.paired /\ call.row = 0
    /\ call.before[<<0, 0>>] = [threw |-> FALSE, value |-> "A"]
    /\ getItem(World, Matrix, 0, 0) = [threw |-> FALSE, value |-> "A"]
    /\ getLength(World, Matrix) = maxCols

\* C22: each insertCols or removeCols call submits exactly one operation, a
\* group; the group holds, for the rows 0 .. numRows - 1 in this order, one
\* remove of n positions of the row followed by one insert of a padding
\* segment of length n into the row, and nothing else; the call leaves the
\* length of the sequence and the number of rows as they were.
C22_OneGroupedOperation ==
    call.op \in {"insertCols", "removeCols"} =>
        /\ Len(call.submitted) = 1
        /\ call.submitted[1].type = GROUP
        /\ Len(call.submitted[1].ops) = 2 * numRows(World, Matrix)
        /\ \A r \in 0..numRows(World, Matrix) - 1 :
              LET remove == call.submitted[1].ops[2 * r + 1]
                  insert == call.submitted[1].ops[2 * r + 2]
              IN /\ remove = createRemoveRangeOp(r * maxCols + call.src,
                                                 r * maxCols + call.src + call.n)
                 /\ remove.pos2 <= (r + 1) * maxCols
                 /\ insert = createInsertSegmentOp(r * maxCols + call.dest,
                                                   PaddingSegment(call.n))
                 /\ insert.pos1 + call.n <= (r + 1) * maxCols
        /\ getLength(World, Matrix) = numRows(World, Matrix) * maxCols
        /\ numRows(World, Matrix) = call.rows
        /\ (call.op = "insertCols" \/ ~call.paired)
              => getLength(World, Matrix) = call.length

\* columns were inserted into a matrix of two rows: one group of four
C22_Witness ==
    /\ call.op = "insertCols"
    /\ call.rows = 2
    /\ Len(call.submitted) = 1
    /\ Len(call.submitted[1].ops) = 4
    /\ call.submitted[1].ops[3].type = REMOVE
    /\ call.submitted[1].ops[4].type = INSERT

\* the place of an item among the items the segments were created with
ItemIndex(item) == CHOOSE i \in 1..Len(SegmentItems) : SegmentItems[i] = item

\* the standalone segments in use
InUse == {i \in 1..Len(segs) : Has(order.s1, i)}

\* C23: segment invariant. After any sequence of append, split (0 < offset
\* < length) and removeRange, every run segment holds one tag per item (tag
\* count = item count = length) and every item it holds has the tag the item
\* was given; a split leaves the original with [0, offset) and makes a
\* fragment of the same kind with [offset, length), the two lengths summing
\* to the length before; padding appended to padding sums the lengths; a
\* run appended to padding raises an error and leaves the padding as it was.
C23_SegmentInvariant ==
    /\ \A i \in InUse :
          segs[i].kind = "run" =>
              /\ Len(segs[i].tags) = Len(segs[i].items)
              /\ Len(segs[i].items) = segs[i].len
              /\ \A k \in 1..Len(segs[i].items) :
                    segs[i].tags[k] = call.tagOf[ItemIndex(segs[i].items[k])]
    /\ call.op = "split" =>
          /\ segs[call.i].len = call.offset
          /\ segs[call.fragment].len = call.orig.len - call.offset
          /\ segs[call.i].len + segs[call.fragment].len = call.orig.len
          /\ segs[call.i].kind = call.orig.kind
          /\ segs[call.fragment].kind = call.orig.kind
          /\ call.orig.kind = "run" =>
                /\ segs[call.i].items = SubSeq(call.orig.items, 1, call.offset)
                /\ segs[call.fragment].items =
                      SubSeq(call.orig.items, call.offset + 1, Len(call.orig.items))
    /\ (call.op = "append" /\ call.orig.kind = "pad") =>
          IF call.other.kind = "pad"
          THEN ~call.threw /\ segs[call.i].len = call.orig.len + call.other.len
          ELSE call.threw /\ segs[call.i] = call.orig

\* a run of tagged items was appended to a run that a range was removed from
\* or that was split before
C23_Witness ==
    /\ call.op = "append" /\ call.orig.kind = "run" /\ ~call.threw
    /\ Len(call.orig.items) >= 1 /\ Len(call.other.items) >= 2
    /\ segs[call.i].items = call.orig.items \o call.other.items
    /\ segs[call.i].tags = call.orig.tags \o call.other.tags
    /\ \E k \in 1..Len(call.other.tags) : call.other.tags[k] # 0
    /\ Len(segs) > 4

\* one turn of the drain loop of revert(): the inverse operation of one
\* segment of the group of the popped entry
DrainTurn == rv.pc = "inner" /\ rv' # rv

C24_Step ==
    DrainTurn =>
        /\ Len(revs'[rv.r].tracking) <= Len(revs[rv.r].tracking)
        /\ Len(groups'[Tg]) < Len(groups[Tg])

\* C24: revert() does not record into itself. While revert() of R drains a
\* group, the local deltas its inverse operations emit add no entry to R's
\* own list, also when R is the Revertable registered as open for its
\* attached sequence, and every turn of the drain loop makes the group being
\* drained smaller.
C24_RevertDoesNotRecordIntoItself == [][C24_Step]_vars

\* The same for a Revertable that is not registered as open.
RevertOfClosedDoesNotRecordIntoItself == [][Closed(rv.r) => C24_Step]_vars

\* C25: Handler ordering under a re-entrant notification. The stack manager
\* emits the operation-changed notification from inside every
\* pushToCurrentOperation call. When the delta handler returns from a local
\* delta of a sequence that had no open Revertable, the Revertable it created
\* was pushed once, is the only Revertable registered as open (the
\* notification forgot those of the other sequences, not the new one), and
\* holds the ranges of the delta; and a local delta of a sequence that has an
\* open Revertable is added to that Revertable, which stays registered, with
\* no push.
C25_Step ==
    LET s == delta'.seq
        R == sequences[s]
        new == Len(revs) + 1
    IN (delta'.isLocal /\ s \in Seqs /\ listeners[s] > 0) =>
          IF R = 0
          THEN /\ pushed' = Append(pushed, new)
               /\ sequences' = [t \in Seqs |-> IF t = s THEN new ELSE 0]
               /\ fed' = <<new>>
               /\ Recorded(revs', groups', delta', new)
          ELSE /\ pushed' = pushed
               /\ sequences' = sequences
               /\ fed' = <<R>>
               /\ Recorded(revs', groups', delta', R)

C25_PushBeforeRegister == [][C25_Step]_vars

\* the first local delta of s1 pushed Revertable 2, the notification fired
\* inside the push forgot the open Revertable of s2, and the next local delta
\* of s1 went to Revertable 2 as well, with no second push
C25_Witness ==
    /\ nedits = 2
    /\ pushed = <<1, 2>>
    /\ sequences = [s1 |-> 2, s2 |-> 0]
    /\ revs[2].sequence = "s1"
    /\ Len(revs[2].tracking) = 2
    /\ delta.isLocal /\ delta.seq = "s1"
    /\ fed = <<2>>

\* disgard() is called on the Revertable whose revert() has just raised
DisgardAfterThrow ==
    /\ rv.pc = "idle" /\ rv.outcome = "threw"
    /\ rv'.outcome = "discarded" /\ rv'.r = rv.r

\* C26: a revert() that ends with an error leaves no unreleasable tracking
\* links. When revert() raised while it processed an entry and disgard() is
\* called on the same Revertable next, then after disgard() the tracking
\* group of every entry the Revertable held when revert() was called (the
\* entry being processed when the error was raised and the entries recorded
\* before it) has size 0.
C26_Step ==
    DisgardAfterThrow =>
        \A i \in 1..Len(rv.start) : Len(groups'[rv.start[i].trackingGroup]) = 0

C26_NoLinksLeftAfterFailedRevert == [][C26_Step]_vars

\* The entries still in the list when revert() raised are released by the
\* disgard() that follows.
RemainingEntriesReleased ==
    [][DisgardAfterThrow =>
          \A i \in 1..Len(revs[rv.r].tracking) :
              Len(groups'[revs[rv.r].tracking[i].trackingGroup]) = 0]_vars

\* the messages connection c passed to the producer, by position
Sent(c) == {k \in 1..Len(producer) : producer[k].conn = c}

\* C27: the 'existing' flag of the connections of one KafkaOrderer. For an
\* orderer created over a document that did not exist, the connection of the
\* first connect() call has existing = false and every later one has
\* existing = true, whatever the order in which the calls complete; for an
\* orderer created over an existing document every connection has existing =
\* true; and the first message a connection hands to the producer is its
\* ClientJoin, so it precedes every message passed to order().
C27_ExistingFlag ==
    /\ \A c \in 1..Len(connections) :
          connections[c].existing = (details.existing \/ c > 1)
    /\ \A c \in 1..Len(connections) :
          /\ Sent(c) # {}
          /\ \A k \in Sent(c) :
                (producer[k].type = ClientJoin) = (\A j \in Sent(c) : k <= j)

\* three connections to a new document; the second connect() completed before
\* the first, and its client has passed a message to order()
C27_Witness ==
    /\ ~details.existing
    /\ Len(connections) = 3
    /\ ~connections[1].joined /\ connections[2].joined
    /\ \E k \in Sent(2) : producer[k].type = Operation
    /\ ~connections[1].existing /\ connections[2].existing /\ connections[3].existing

====
